---------------------------- MODULE Spec2Model ----------------------------
(***************************************************************************)
(* A model of the static handler analyzer of bytedocs-go (package parser) *)
(* and of the per-directory analysis cache that guards it.                *)
(*                                                                         *)
(* Go strings are TLA+ strings; the conversions the analyzer applies to    *)
(* them (case folding, number parsing and printing, unquoting, splitting)  *)
(* are computed character by character.                                    *)
(*                                                                         *)
(* A Go interface value is a record.  nil is the record Nil.  An example   *)
(* value carries its dynamic type in the field t.                          *)
(***************************************************************************)
EXTENDS Integers, Sequences, FiniteSets, TLC

VARIABLES
    \* ---- the directory cache (loadPackageAnalysis and its callers) ----
    analysisCache,   \* dir -> pointer; a dir outside the domain has no entry
    heap,            \* pointer -> the packageAnalysis it points to
    readers,         \* goroutines holding analysisMutex.RLock
    writer,          \* the goroutines holding analysisMutex.Lock: none or one
    pc,              \* goroutine -> its position in loadPackageAnalysis
    dir,             \* goroutine -> the dir argument of its current call
    ret,             \* goroutine -> the pointer its call returns
    via,             \* goroutine -> the return statement its call took
    missed,          \* goroutine -> its current call missed under RLock
    handlers,        \* goroutine -> the handlers map collectHandlerMetadata is building
    declIdx,         \* goroutine -> the next declaration collectHandlerMetadata visits
    fileOrder,       \* goroutine -> the order in which its pass ranges over pkg.Files
    calls,           \* the number of lookups started so far
    parses,          \* dir -> the number of analyzeDirectory executions
    returned,        \* dir -> the pointers handed to callers so far
    dirPkg,          \* dir -> the source package found in that directory
    fatal,           \* the process died of a stack overflow
    \* ---- the walk of one handler body (analyzeHandlerDetails) ----
    fn,              \* the nodes of the body ast.Inspect has visited, in walk order
    ctx,             \* the analysisContext: variables and values
    analysis,        \* the handlerAnalysis: RequestBody and Responses
    trail,           \* what the callback met at each visited node (for the properties)
    \* ---- one schema construction (buildSchemaFromExpr) ----
    sbArgs,          \* the arguments of the call
    sbResult,        \* its result, or NotCalled
    \* ---- the docs endpoint (APIDocs.ServeHTTP behind AuthMiddleware) ----
    authConfig,      \* config.AuthConfig
    templatesOnDisk, \* the auth page templates can be read from the working directory
    now,             \* the wall clock, in minutes
    sessionAuth,     \* the SessionAuthMiddleware the latest session request ran on
    issued,          \* session id -> the minute of the login that issued it
    wrong,           \* client IP -> wrong passwords submitted since its last login or ban
    banStart,        \* client IP -> the minute it used up its attempts
    exchange,        \* the latest request and its response
    \* ---- lookups by the Gin and the standard-library analyzer ----
    lookup,          \* the latest lookup: analyzer, directory, handler, metadata
    \* ---- the visited map of one schema construction, call by call ----
    catalog,         \* ctx.structs
    visitedNames,    \* the map visited: type name -> marked
    frames,          \* the buildStructSchema activations in progress, outermost first
    cur,             \* the expression the innermost buildSchemaFromExpr call is given
    expansions,      \* the occurrences of named struct types met so far
    \* ---- one SessionAuthMiddleware serving concurrent requests ----
    middleware,      \* the SessionAuthMiddleware: config, sessions, ipBans, attempts
    requests,        \* goroutine -> its position in ServeHTTP and its locals
    wall,            \* time.Now(), in minutes
    removed,         \* the bans deleted so far: the entry deleted and the time of the delete
    \* ---- the scenario store of the UI handler (createScenario) ----
    scenarios,       \* the map scenarios: id -> the scenario stored under it
    scenarioCounter, \* the package-level counter
    creators,        \* goroutine -> its position in createScenario and its locals
    created,         \* the scenarios create requests were answered 201 with
    unixTime,        \* time.Now().Unix()
    \* ---- a GorillaMuxWrapper and its docs endpoint (SetupGorillaMuxDocs) ----
    wrapper,         \* the GorillaMuxWrapper: routes (tracked) and Router (the mux routes)
    handed,          \* the *RouteBuilder and *mux.Route values registrations returned
    globalGorillaDocs,\* the APIDocs: routes and documentation.Endpoints
    docsServed,      \* the number of docs requests served
    lastOp           \* the latest call on the wrapper or request to the docs endpoint

cacheVars == <<analysisCache, heap, readers, writer, pc, dir, ret, via, missed,
               handlers, declIdx, fileOrder, calls, parses, returned, dirPkg, fatal>>
walkVars == <<fn, ctx, analysis, trail>>
schemaVars == <<sbArgs, sbResult>>
docsVars == <<authConfig, templatesOnDisk, now, sessionAuth, issued, wrong, banStart, exchange>>
lookupVars == <<lookup>>
builderVars == <<catalog, visitedNames, frames, cur, expansions>>
banVars == <<middleware, requests, wall, removed>>
scenarioVars == <<scenarios, scenarioCounter, creators, created, unixTime>>
muxVars == <<wrapper, handed, globalGorillaDocs, docsServed, lastOp>>
appVars == <<lookupVars, builderVars, banVars, scenarioVars, muxVars>>
\* the variables of the other sections, for each section below
varsButLookup == <<walkVars, schemaVars, docsVars, builderVars, banVars, scenarioVars, muxVars>>
varsButBuilder == <<cacheVars, walkVars, schemaVars, docsVars, lookupVars, banVars, scenarioVars, muxVars>>
varsButBans == <<cacheVars, walkVars, schemaVars, docsVars, lookupVars, builderVars, scenarioVars, muxVars>>
varsButScenario == <<cacheVars, walkVars, schemaVars, docsVars, lookupVars, builderVars, banVars, muxVars>>
varsButMux == <<cacheVars, walkVars, schemaVars, docsVars, lookupVars, builderVars, banVars, scenarioVars>>
vars == <<cacheVars, walkVars, schemaVars, docsVars, appVars>>

-----------------------------------------------------------------------------
(* Go values *)

\* nil
Nil == [k |-> "nil", t |-> "nil"]
IsNil(v) == DOMAIN v = {"k", "t"}

\* The outcome of a call that never returns: the recursion revisits a frame
\* it is still inside, so the goroutine's stack grows until the runtime
\* kills the process.
Diverges == [k |-> "diverges", t |-> "diverges", diverges |-> TRUE]
IsDiverges(v) == DOMAIN v = {"k", "t", "diverges"}

\* map[K]V
EmptyMap == << >>
Put(m, k, v) == [x \in (DOMAIN m) \cup {k} |-> IF x = k THEN v ELSE m[x]]
Has(m, k) == k \in DOMAIN m
Merge(m, n) == [x \in (DOMAIN m) \cup (DOMAIN n) |-> IF x \in DOMAIN n THEN n[x] ELSE m[x]]

\* interface{} values built as examples
ExStr(s) == [t |-> "string", v |-> s]
ExInt(n) == [t |-> "int", v |-> n]
ExFloat(s) == [t |-> "float64", v |-> s]
ExBool(b) == [t |-> "bool", v |-> b]
ExObj(m) == [t |-> "map", v |-> m]
ExArr(s) == [t |-> "slice", v |-> s]

-----------------------------------------------------------------------------
(* strings *)

CharAt(s, i) == SubSeq(s, i, i)
HasPrefix(s, p) == Len(s) >= Len(p) /\ SubSeq(s, 1, Len(p)) = p
HasSuffix(s, p) == Len(s) >= Len(p) /\ SubSeq(s, Len(s) - Len(p) + 1, Len(s)) = p
TrimPrefix(s, p) == IF HasPrefix(s, p) THEN SubSeq(s, Len(p) + 1, Len(s)) ELSE s
Contains(s, p) == \E i \in 1..(Len(s) - Len(p) + 1) : SubSeq(s, i, i + Len(p) - 1) = p

Digits == "0123456789"
IsDigit(c) == \E i \in 1..10 : CharAt(Digits, i) = c
DigitVal(c) == (CHOOSE i \in 1..10 : CharAt(Digits, i) = c) - 1

UpperLetters == "ABCDEFGHIJKLMNOPQRSTUVWXYZ"
LowerLetters == "abcdefghijklmnopqrstuvwxyz"
IsUpper(c) == \E i \in 1..26 : CharAt(UpperLetters, i) = c
\* unicode.ToLower on one rune
ToLowerRune(c) == IF IsUpper(c)
                  THEN CharAt(LowerLetters, CHOOSE i \in 1..26 : CharAt(UpperLetters, i) = c)
                  ELSE c
\* strings.ToLower
RECURSIVE ToLower(_)
ToLower(s) == IF s = "" THEN "" ELSE ToLowerRune(CharAt(s, 1)) \o ToLower(Tail(s))
\* strings.EqualFold
EqualFold(a, b) == ToLower(a) = ToLower(b)

\* strings.ReplaceAll(s, old, "") for a one-character old
RECURSIVE RemoveAll(_, _)
RemoveAll(s, old) == IF s = "" THEN ""
                     ELSE (IF CharAt(s, 1) = old THEN "" ELSE CharAt(s, 1)) \o RemoveAll(Tail(s), old)

RECURSIVE DigitsValue(_)
DigitsValue(s) == IF s = "" THEN 0
                  ELSE 10 * DigitsValue(SubSeq(s, 1, Len(s) - 1)) + DigitVal(CharAt(s, Len(s)))

\* strconv.Atoi and strconv.ParseInt(s, 10, 64): an optional sign, then decimal
\* digits only (the literals of the model stay far below 2^63)
Atoi(s) ==
    LET signed == s # "" /\ CharAt(s, 1) \in {"+", "-"}
        body == IF signed THEN Tail(s) ELSE s
    IN  IF body = "" \/ \E i \in 1..Len(body) : ~IsDigit(CharAt(body, i))
        THEN [ok |-> FALSE, num |-> 0]
        ELSE [ok |-> TRUE,
              num |-> IF signed /\ CharAt(s, 1) = "-" THEN 0 - DigitsValue(body)
                      ELSE DigitsValue(body)]

RECURSIVE NatToDigits(_)
NatToDigits(n) == IF n < 10 THEN CharAt(Digits, n + 1)
                  ELSE NatToDigits(n \div 10) \o CharAt(Digits, (n % 10) + 1)
\* strconv.Itoa
Itoa(n) == IF n < 0 THEN "-" \o NatToDigits(0 - n) ELSE NatToDigits(n)

\* strconv.Unquote on an interpreted string literal without escapes
Unquote(s) ==
    IF Len(s) >= 2 /\ CharAt(s, 1) = "\"" /\ CharAt(s, Len(s)) = "\""
    THEN [ok |-> TRUE, str |-> SubSeq(s, 2, Len(s) - 1)]
    ELSE [ok |-> FALSE, str |-> ""]

RECURSIVE TrimLeft(_, _)
TrimLeft(s, c) == IF s # "" /\ CharAt(s, 1) = c THEN TrimLeft(Tail(s), c) ELSE s
RECURSIVE TrimRight(_, _)
TrimRight(s, c) == IF s # "" /\ CharAt(s, Len(s)) = c
                   THEN TrimRight(SubSeq(s, 1, Len(s) - 1), c) ELSE s
\* strings.Trim(s, cutset) for a one-character cutset
Trim(s, c) == TrimRight(TrimLeft(s, c), c)

\* strings.Split(s, sep)[0] for a one-character sep
RECURSIVE SplitFirst(_, _)
SplitFirst(s, sep) == IF s = "" \/ CharAt(s, 1) = sep THEN ""
                      ELSE CharAt(s, 1) \o SplitFirst(Tail(s), sep)

-----------------------------------------------------------------------------
(* go/ast: the node kinds the analyzer distinguishes *)

Ident(name) == [k |-> "Ident", Name |-> name]
BasicLit(kind, value) == [k |-> "BasicLit", Kind |-> kind, Value |-> value]
SelectorExpr(x, sel) == [k |-> "SelectorExpr", X |-> x, Sel |-> sel]
StarExpr(x) == [k |-> "StarExpr", X |-> x]
UnaryExpr(op, x) == [k |-> "UnaryExpr", Op |-> op, X |-> x]
KeyValueExpr(key, value) == [k |-> "KeyValueExpr", Key |-> key, Value |-> value]
CompositeLit(type, elts) == [k |-> "CompositeLit", Type |-> type, Elts |-> elts]
CallExpr(fun, args) == [k |-> "CallExpr", Fun |-> fun, Args |-> args]
ArrayType(elt) == [k |-> "ArrayType", Elt |-> elt]
MapType(key, value) == [k |-> "MapType", Key |-> key, Value |-> value]
InterfaceType == [k |-> "InterfaceType"]
StructType(fields) == [k |-> "StructType", Fields |-> fields]
\* the expressions no switch of the analyzer has a case for
FuncType == [k |-> "FuncType"]
IndexExpr(x, index) == [k |-> "IndexExpr", X |-> x, Index |-> index]
\* one *ast.Field of a struct type: Tag is the field's tag as
\* reflect.StructTag reads it (key -> value), Comment its trailing comment
Field(names, type, tag, comment) ==
    [Names |-> names, Type |-> type, Tag |-> tag, Comment |-> comment]

\* the statements analyzeHandlerDetails has a case for
DeclStmt(tok, specs) == [k |-> "DeclStmt", Tok |-> tok, Specs |-> specs]
AssignStmt(tok, lhs, rhs) == [k |-> "AssignStmt", Tok |-> tok, Lhs |-> lhs, Rhs |-> rhs]
RangeStmt(tok, value, x) == [k |-> "RangeStmt", Tok |-> tok, Value |-> value, X |-> x]

IntLit(value) == BasicLit("INT", value)
StringLit(value) == BasicLit("STRING", value)
Sel(pkg, name) == SelectorExpr(Ident(pkg), name)

RECURSIVE exprToString(_)
exprToString(expr) ==
    CASE expr.k = "Ident" -> expr.Name
      [] expr.k = "StarExpr" -> "*" \o exprToString(expr.X)
      [] expr.k = "SelectorExpr" -> exprToString(expr.X) \o "." \o expr.Sel
      [] expr.k = "ArrayType" -> "[]" \o exprToString(expr.Elt)
      [] expr.k = "MapType" -> "map[" \o exprToString(expr.Key) \o "]" \o exprToString(expr.Value)
      [] OTHER -> ""

-----------------------------------------------------------------------------
(* status codes *)

httpStatusNameMap ==
    [StatusContinue |-> 100,
     StatusSwitchingProtocols |-> 101,
     StatusProcessing |-> 102,
     StatusEarlyHints |-> 103,
     StatusOK |-> 200,
     StatusCreated |-> 201,
     StatusAccepted |-> 202,
     StatusNonAuthoritativeInfo |-> 203,
     StatusNoContent |-> 204,
     StatusResetContent |-> 205,
     StatusPartialContent |-> 206,
     StatusMultiStatus |-> 207,
     StatusAlreadyReported |-> 208,
     StatusIMUsed |-> 226,
     StatusMultipleChoices |-> 300,
     StatusMovedPermanently |-> 301,
     StatusFound |-> 302,
     StatusSeeOther |-> 303,
     StatusNotModified |-> 304,
     StatusUseProxy |-> 305,
     StatusTemporaryRedirect |-> 307,
     StatusPermanentRedirect |-> 308,
     StatusBadRequest |-> 400,
     StatusUnauthorized |-> 401,
     StatusPaymentRequired |-> 402,
     StatusForbidden |-> 403,
     StatusNotFound |-> 404,
     StatusMethodNotAllowed |-> 405,
     StatusNotAcceptable |-> 406,
     StatusProxyAuthRequired |-> 407,
     StatusRequestTimeout |-> 408,
     StatusConflict |-> 409,
     StatusGone |-> 410,
     StatusLengthRequired |-> 411,
     StatusPreconditionFailed |-> 412,
     StatusRequestEntityTooLarge |-> 413,
     StatusRequestURITooLong |-> 414,
     StatusUnsupportedMediaType |-> 415,
     StatusRequestedRangeNotSatisfiable |-> 416,
     StatusExpectationFailed |-> 417,
     StatusTeapot |-> 418,
     StatusMisdirectedRequest |-> 421,
     StatusUnprocessableEntity |-> 422,
     StatusLocked |-> 423,
     StatusFailedDependency |-> 424,
     StatusTooEarly |-> 425,
     StatusUpgradeRequired |-> 426,
     StatusPreconditionRequired |-> 428,
     StatusTooManyRequests |-> 429,
     StatusRequestHeaderFieldsTooLarge |-> 431,
     StatusUnavailableForLegalReasons |-> 451,
     StatusInternalServerError |-> 500,
     StatusNotImplemented |-> 501,
     StatusBadGateway |-> 502,
     StatusServiceUnavailable |-> 503,
     StatusGatewayTimeout |-> 504,
     StatusHTTPVersionNotSupported |-> 505,
     StatusVariantAlsoNegotiates |-> 506,
     StatusInsufficientStorage |-> 507,
     StatusLoopDetected |-> 508,
     StatusNotExtended |-> 510,
     StatusNetworkAuthenticationRequired |-> 511]

\* net/http.StatusText
StatusText(code) ==
    CASE code = 100 -> "Continue"
      [] code = 101 -> "Switching Protocols"
      [] code = 102 -> "Processing"
      [] code = 103 -> "Early Hints"
      [] code = 200 -> "OK"
      [] code = 201 -> "Created"
      [] code = 202 -> "Accepted"
      [] code = 203 -> "Non-Authoritative Information"
      [] code = 204 -> "No Content"
      [] code = 205 -> "Reset Content"
      [] code = 206 -> "Partial Content"
      [] code = 207 -> "Multi-Status"
      [] code = 208 -> "Already Reported"
      [] code = 226 -> "IM Used"
      [] code = 300 -> "Multiple Choices"
      [] code = 301 -> "Moved Permanently"
      [] code = 302 -> "Found"
      [] code = 303 -> "See Other"
      [] code = 304 -> "Not Modified"
      [] code = 305 -> "Use Proxy"
      [] code = 307 -> "Temporary Redirect"
      [] code = 308 -> "Permanent Redirect"
      [] code = 400 -> "Bad Request"
      [] code = 401 -> "Unauthorized"
      [] code = 402 -> "Payment Required"
      [] code = 403 -> "Forbidden"
      [] code = 404 -> "Not Found"
      [] code = 405 -> "Method Not Allowed"
      [] code = 406 -> "Not Acceptable"
      [] code = 407 -> "Proxy Authentication Required"
      [] code = 408 -> "Request Timeout"
      [] code = 409 -> "Conflict"
      [] code = 410 -> "Gone"
      [] code = 411 -> "Length Required"
      [] code = 412 -> "Precondition Failed"
      [] code = 413 -> "Request Entity Too Large"
      [] code = 414 -> "Request URI Too Long"
      [] code = 415 -> "Unsupported Media Type"
      [] code = 416 -> "Requested Range Not Satisfiable"
      [] code = 417 -> "Expectation Failed"
      [] code = 418 -> "I'm a teapot"
      [] code = 421 -> "Misdirected Request"
      [] code = 422 -> "Unprocessable Entity"
      [] code = 423 -> "Locked"
      [] code = 424 -> "Failed Dependency"
      [] code = 425 -> "Too Early"
      [] code = 426 -> "Upgrade Required"
      [] code = 428 -> "Precondition Required"
      [] code = 429 -> "Too Many Requests"
      [] code = 431 -> "Request Header Fields Too Large"
      [] code = 451 -> "Unavailable For Legal Reasons"
      [] code = 500 -> "Internal Server Error"
      [] code = 501 -> "Not Implemented"
      [] code = 502 -> "Bad Gateway"
      [] code = 503 -> "Service Unavailable"
      [] code = 504 -> "Gateway Timeout"
      [] code = 505 -> "HTTP Version Not Supported"
      [] code = 506 -> "Variant Also Negotiates"
      [] code = 507 -> "Insufficient Storage"
      [] code = 508 -> "Loop Detected"
      [] code = 510 -> "Not Extended"
      [] code = 511 -> "Network Authentication Required"
      [] OTHER -> ""

\* What a call returns when it never returns (see Diverges), where the
\* result type is string.
NoReturn == "fatal error: stack overflow"

\* seen: the identifiers whose binding the recursion is resolving.
RECURSIVE extractStatusCodeFrom(_, _, _)
extractStatusCodeFrom(expr, c, seen) ==
    CASE expr.k = "BasicLit" ->
            IF expr.Kind = "INT" /\ Atoi(RemoveAll(expr.Value, "_")).ok
            THEN Itoa(Atoi(RemoveAll(expr.Value, "_")).num)
            ELSE ""
      [] expr.k = "SelectorExpr" ->
            IF expr.Sel \in DOMAIN httpStatusNameMap
            THEN Itoa(httpStatusNameMap[expr.Sel])
            ELSE ""
      [] expr.k = "Ident" ->
            IF ~IsNil(c) /\ Has(c.variables, expr.Name)
            THEN IF expr.Name \in seen THEN NoReturn
                 ELSE extractStatusCodeFrom(c.variables[expr.Name], c, seen \cup {expr.Name})
            ELSE ""
      [] OTHER -> ""

extractStatusCode(expr, c) == extractStatusCodeFrom(expr, c, {})

statusTextFromCode(code) == IF Atoi(code).ok THEN StatusText(Atoi(code).num) ELSE ""

-----------------------------------------------------------------------------
(* type inference over one function body *)

\* analysisContext
Context(structs, functions, variables, values) ==
    [structs |-> structs, functions |-> functions, variables |-> variables, values |-> values]

\* functionSignature
Signature(receiver, results) == [receiver |-> receiver, results |-> results]

IsMarshal(full) == full = "json.Marshal" \/ full = "json.MarshalIndent"

\* << >> is the nil slice
lookupFunctionResult(c, receiver, name) ==
    IF IsNil(c) THEN << >>
    ELSE IF receiver # "" /\ Has(c.functions, receiver \o "." \o name)
                          /\ Len(c.functions[receiver \o "." \o name]) > 0
    THEN c.functions[receiver \o "." \o name][1].results
    ELSE IF receiver # "" /\ Has(c.functions, TrimPrefix(receiver, "*") \o "." \o name)
                          /\ Len(c.functions[TrimPrefix(receiver, "*") \o "." \o name]) > 0
    THEN c.functions[TrimPrefix(receiver, "*") \o "." \o name][1].results
    ELSE IF Has(c.functions, name) /\ Len(c.functions[name]) > 0
    THEN c.functions[name][1].results
    ELSE << >>

RECURSIVE inferTypeFromExpr(_, _)
RECURSIVE resolveTypeFromArg(_, _)

inferTypeFromExpr(expr, c) ==
    CASE expr.k = "CompositeLit" -> expr.Type
      [] expr.k = "CallExpr" ->
            LET fun == expr.Fun
                byName == lookupFunctionResult(c, "", fun.Name)
                byRecv == lookupFunctionResult(c, exprToString(resolveTypeFromArg(fun.X, c)), fun.Sel)
            IN  IF fun.k = "Ident" /\ fun.Name = "new" /\ Len(expr.Args) = 1
                THEN StarExpr(expr.Args[1])
                ELSE IF fun.k = "Ident" /\ Len(byName) > 0 THEN byName[1]
                ELSE IF fun.k = "SelectorExpr" /\ IsMarshal(exprToString(fun))
                THEN ArrayType(Ident("byte"))
                ELSE IF fun.k = "SelectorExpr" /\ Len(byRecv) > 0 THEN byRecv[1]
                ELSE Nil
      [] expr.k = "UnaryExpr" ->
            IF expr.Op = "&" /\ expr.X.k = "CompositeLit" THEN expr.X.Type
            ELSE IF expr.Op = "&" /\ expr.X.k = "Ident" /\ ~IsNil(c) /\ Has(c.variables, expr.X.Name)
            THEN c.variables[expr.X.Name]
            ELSE Nil
      [] expr.k \in {"Ident", "SelectorExpr", "ArrayType", "MapType", "StructType", "StarExpr"} -> expr
      [] expr.k = "BasicLit" -> expr
      [] OTHER -> Nil

resolveTypeFromArg(expr, c) ==
    CASE expr.k = "UnaryExpr" ->
            IF expr.Op = "&" /\ expr.X.k = "Ident" /\ ~IsNil(c) /\ Has(c.variables, expr.X.Name)
            THEN c.variables[expr.X.Name]
            ELSE IF expr.Op = "&" /\ expr.X.k = "CompositeLit" THEN expr.X.Type
            ELSE expr
      [] expr.k = "Ident" ->
            IF ~IsNil(c) /\ Has(c.variables, expr.Name) THEN c.variables[expr.Name] ELSE expr
      [] expr.k = "CallExpr" -> inferTypeFromExpr(expr, c)
      [] expr.k = "CompositeLit" -> expr.Type
      [] expr.k = "SelectorExpr" -> expr
      [] OTHER -> expr

\* seen: the identifiers whose origin value the recursion is following.
RECURSIVE resolveResponsePayloadExprFrom(_, _, _)
resolveResponsePayloadExprFrom(expr, c, seen) ==
    CASE expr.k = "UnaryExpr" ->
            IF expr.Op = "&" THEN resolveResponsePayloadExprFrom(expr.X, c, seen) ELSE expr
      [] expr.k = "CompositeLit" -> expr
      [] expr.k = "Ident" ->
            LET origin == IF ~IsNil(c) /\ Has(c.values, expr.Name) THEN c.values[expr.Name] ELSE Nil
            IN  IF origin.k = "CallExpr" /\ origin.Fun.k = "SelectorExpr"
                   /\ IsMarshal(exprToString(origin.Fun)) /\ Len(origin.Args) > 0
                THEN IF expr.Name \in seen THEN Diverges
                     ELSE resolveResponsePayloadExprFrom(origin.Args[1], c, seen \cup {expr.Name})
                ELSE IF origin.k = "CompositeLit" THEN origin
                ELSE IF ~IsNil(c) /\ Has(c.variables, expr.Name) THEN c.variables[expr.Name]
                ELSE expr
      [] expr.k = "CallExpr" ->
            LET fun == expr.Fun
                byRecv == lookupFunctionResult(c, exprToString(resolveTypeFromArg(fun.X, c)), fun.Sel)
                byName == lookupFunctionResult(c, "", fun.Name)
            IN  IF fun.k = "SelectorExpr" /\ IsMarshal(exprToString(fun)) /\ Len(expr.Args) > 0
                THEN resolveResponsePayloadExprFrom(expr.Args[1], c, seen)
                ELSE IF fun.k = "SelectorExpr" /\ Len(byRecv) > 0 THEN byRecv[1]
                ELSE IF fun.k = "Ident" /\ fun.Name = "new" /\ Len(expr.Args) = 1
                THEN StarExpr(expr.Args[1])
                ELSE IF fun.k = "Ident" /\ Len(byName) > 0 THEN byName[1]
                ELSE expr
      [] expr.k = "SelectorExpr" -> expr
      [] expr.k = "BasicLit" -> expr
      [] OTHER -> expr

resolveResponsePayloadExpr(expr, c) == resolveResponsePayloadExprFrom(expr, c, {})

-----------------------------------------------------------------------------
(* schemas and examples *)

\* the (schema, example) pair the builders return
SE(schema, example) == [schema |-> schema, example |-> example]

\* strconv.ParseFloat on the decimal forms "d", "d.d": the value, printed
\* with at least one fractional digit and no trailing zeros
ParseFloat(s) ==
    LET whole == SplitFirst(s, ".")
        rest == SubSeq(s, Len(whole) + 1, Len(s))
        frac == IF rest = "" THEN "" ELSE Tail(rest)
        digitsOnly(x) == \A i \in 1..Len(x) : IsDigit(CharAt(x, i))
        cut == TrimRight(frac, "0")
    IN  IF whole = "" \/ ~digitsOnly(whole) \/ ~digitsOnly(frac) \/ (rest # "" /\ frac = "")
        THEN [ok |-> FALSE, num |-> ""]
        ELSE [ok |-> TRUE,
              num |-> Itoa(DigitsValue(whole)) \o "." \o (IF cut = "" THEN "0" ELSE cut)]

\* strconv.ParseBool
ParseBool(s) ==
    IF s \in {"1", "t", "T", "TRUE", "true", "True"} THEN [ok |-> TRUE, val |-> TRUE]
    ELSE IF s \in {"0", "f", "F", "FALSE", "false", "False"} THEN [ok |-> TRUE, val |-> FALSE]
    ELSE [ok |-> FALSE, val |-> FALSE]

\* encoding/json.Unmarshal into interface{}, on the two documents the model
\* uses as tag examples; every other text is rejected
JSONUnmarshal(s) ==
    IF s = "{}" THEN [ok |-> TRUE, val |-> ExObj(EmptyMap)]
    ELSE IF s = "[]" THEN [ok |-> TRUE, val |-> ExArr(<< >>)]
    ELSE [ok |-> FALSE, val |-> Nil]

primitiveSchemaForIdent(name) ==
    LET lower == ToLower(name)
    IN  CASE lower \in {"string", "rune"} -> SE([type |-> "string"], ExStr("string"))
          [] lower = "bool" -> SE([type |-> "boolean"], ExBool(TRUE))
          [] lower \in {"int", "int8", "int16", "int32", "int64", "uint", "uint8",
                        "uint16", "uint32", "uint64", "uintptr"} ->
                SE(IF lower \in {"int32", "uint32"} THEN [type |-> "integer", format |-> "int32"]
                   ELSE IF lower \in {"int64", "uint64"} THEN [type |-> "integer", format |-> "int64"]
                   ELSE [type |-> "integer"],
                   ExInt(0))
          [] lower \in {"float32", "float64"} ->
                SE(IF lower = "float32" THEN [type |-> "number", format |-> "float"]
                   ELSE [type |-> "number", format |-> "double"],
                   ExFloat("0.0"))
          [] lower = "byte" -> SE([type |-> "integer", format |-> "int32"], ExInt(0))
          [] lower = "interface{}" -> SE([type |-> "object"], ExObj(EmptyMap))
          [] OTHER -> SE(Nil, Nil)

schemaForSelector(fullName) ==
    CASE fullName = "time.Time" ->
            SE([type |-> "string", format |-> "date-time"], ExStr("2024-01-01T00:00:00Z"))
      [] fullName \in {"uuid.UUID", "guuid.UUID", "github.com/google/uuid.UUID"} ->
            SE([type |-> "string", format |-> "uuid"], ExStr("123e4567-e89b-12d3-a456-426614174000"))
      [] OTHER -> SE(Nil, Nil)

RECURSIVE defaultExampleFromSchema(_)
defaultExampleFromSchema(schema) ==
    IF IsNil(schema) THEN Nil
    ELSE LET kind == IF Has(schema, "type") THEN schema.type ELSE ""
         IN CASE kind = "string" ->
                    IF Has(schema, "format") /\ schema.format = "date-time"
                    THEN ExStr("2024-01-01T00:00:00Z")
                    ELSE IF Has(schema, "format") /\ schema.format = "uuid"
                    THEN ExStr("123e4567-e89b-12d3-a456-426614174000")
                    ELSE ExStr("string")
              [] kind = "integer" -> ExInt(0)
              [] kind = "number" -> ExFloat("0.0")
              [] kind = "boolean" -> ExBool(FALSE)
              [] kind = "array" ->
                    IF Has(schema, "items") /\ ~IsNil(schema.items)
                       /\ ~IsNil(defaultExampleFromSchema(schema.items))
                    THEN ExArr(<<defaultExampleFromSchema(schema.items)>>)
                    ELSE ExArr(<< >>)
              [] kind = "object" ->
                    IF Has(schema, "properties")
                    THEN ExObj([key \in DOMAIN schema.properties |->
                                    defaultExampleFromSchema(schema.properties[key])])
                    ELSE ExObj(EmptyMap)
              [] OTHER -> Nil

literalKeyToString(expr) ==
    CASE expr.k = "BasicLit" ->
            IF expr.Kind = "STRING"
            THEN IF Unquote(expr.Value).ok THEN Unquote(expr.Value).str ELSE Trim(expr.Value, "\"")
            ELSE ""
      [] expr.k = "Ident" -> expr.Name
      [] OTHER -> ""

lowerFirst(value) ==
    IF value = "" THEN value ELSE ToLowerRune(CharAt(value, 1)) \o Tail(value)

\* the name and the skip flag
resolveJSONFieldName(fieldName, tag) ==
    IF tag = "-" THEN [name |-> "", skip |-> TRUE]
    ELSE IF tag # "" /\ SplitFirst(tag, ",") # "" THEN [name |-> SplitFirst(tag, ","), skip |-> FALSE]
    ELSE IF fieldName = "" THEN [name |-> "", skip |-> TRUE]
    ELSE [name |-> lowerFirst(fieldName), skip |-> FALSE]

isFieldRequired(jsonTag, bindingTag, validateTag) ==
    IF Contains(jsonTag, "omitempty") THEN FALSE
    ELSE IF Contains(bindingTag, "omitempty") THEN FALSE
    ELSE IF Contains(bindingTag, "required") THEN TRUE
    ELSE IF Contains(validateTag, "required") THEN TRUE
    ELSE FALSE

\* field.Tag holds the key/value pairs reflect.StructTag finds in the tag
getStructTag(field, key) == IF Has(field.Tag, key) THEN field.Tag[key] ELSE ""

fieldComment(field) == field.Comment

convertExampleValue(raw, schema, fallback) ==
    LET trimmed == Trim(raw, " ")
        kind == IF ~IsNil(schema) /\ Has(schema, "type") THEN schema.type ELSE ""
    IN  IF trimmed = "" THEN fallback
        ELSE IF (HasPrefix(trimmed, "{") \/ HasPrefix(trimmed, "[")) /\ JSONUnmarshal(trimmed).ok
        THEN JSONUnmarshal(trimmed).val
        ELSE IF kind = "integer" /\ Atoi(trimmed).ok THEN ExInt(Atoi(trimmed).num)
        ELSE IF kind = "number" /\ ParseFloat(trimmed).ok THEN ExFloat(ParseFloat(trimmed).num)
        ELSE IF kind = "boolean" /\ ParseBool(trimmed).ok THEN ExBool(ParseBool(trimmed).val)
        ELSE ExStr(raw)

-----------------------------------------------------------------------------
(* the schema builder *)

(***************************************************************************)
(* visited is the set of names the Go map marks true.  stack holds one     *)
(* frame <<name, visited>> for every call of buildSchemaFromExpr on an     *)
(* identifier that has not returned yet.  The builder is deterministic and *)
(* reads nothing but its arguments, so a call that meets its own frame     *)
(* again recurses forever; every cycle of calls passes through an          *)
(* identifier, so without such a frame the recursion is well-founded.      *)
(***************************************************************************)
RECURSIVE build(_)
RECURSIVE buildSchemaFromExprIn(_, _, _, _)
RECURSIVE structFields(_, _, _, _, _, _)
RECURSIVE structFieldNames(_, _, _, _, _, _, _)
RECURSIVE mapLiteralElts(_, _, _, _, _, _)
RECURSIVE structLiteralElts(_, _, _, _, _, _, _)
RECURSIVE arrayLiteralElts(_, _, _, _, _, _, _)

\* the switch of buildSchemaFromExpr on a *ast.BasicLit
basicLitSchema(e) ==
    CASE e.Kind = "STRING" ->
            SE([type |-> "string"],
               ExStr(IF Unquote(e.Value).ok THEN Unquote(e.Value).str ELSE Trim(e.Value, "\"")))
      [] e.Kind = "INT" /\ Atoi(RemoveAll(e.Value, "_")).ok ->
            SE([type |-> "integer"], ExInt(Atoi(RemoveAll(e.Value, "_")).num))
      [] e.Kind = "FLOAT" /\ ParseFloat(RemoveAll(e.Value, "_")).ok ->
            SE([type |-> "number"], ExFloat(ParseFloat(RemoveAll(e.Value, "_")).num))
      [] OTHER -> SE([type |-> "string"], ExStr(e.Value))

buildSchemaFromExprIn(expr, c, visited, stack) ==
    CASE IsNil(expr) -> SE(Nil, Nil)
      [] expr.k = "CompositeLit" ->
            build(<<"buildSchemaFromCompositeLiteral", expr, c, visited, stack>>)
      [] expr.k = "StarExpr" -> buildSchemaFromExprIn(expr.X, c, visited, stack)
      [] expr.k = "BasicLit" -> basicLitSchema(expr)
      [] expr.k = "Ident" ->
            LET inner == stack \cup {<<expr.Name, visited>>}
                hasValue == ~IsNil(c) /\ Has(c.values, expr.Name) /\ ~IsNil(c.values[expr.Name])
                fromValue == buildSchemaFromExprIn(c.values[expr.Name], c, visited, inner)
                prim == primitiveSchemaForIdent(expr.Name)
            IN  IF <<expr.Name, visited>> \in stack THEN Diverges
                ELSE IF hasValue /\ IsDiverges(fromValue) THEN Diverges
                ELSE IF hasValue /\ ~IsNil(fromValue.schema) THEN fromValue
                ELSE IF ~IsNil(c) /\ Has(c.variables, expr.Name)
                THEN buildSchemaFromExprIn(c.variables[expr.Name], c, visited, inner)
                ELSE IF ~IsNil(prim.schema) THEN prim
                ELSE IF ~IsNil(c) /\ Has(c.structs, expr.Name)
                THEN IF expr.Name \in visited THEN SE([type |-> "object"], ExObj(EmptyMap))
                     ELSE build(<<"buildStructSchemaIn", c.structs[expr.Name], c,
                                  visited \cup {expr.Name}, inner>>)
                ELSE SE([type |-> "string"], ExStr(""))
      [] expr.k = "ArrayType" ->
            LET item == buildSchemaFromExprIn(expr.Elt, c, visited, stack)
            IN  IF IsDiverges(item) THEN Diverges
                ELSE IF IsNil(item.schema) THEN SE(Nil, Nil)
                ELSE SE([type |-> "array", items |-> item.schema],
                        ExArr(IF IsNil(item.example) THEN << >> ELSE <<item.example>>))
      [] expr.k = "MapType" ->
            LET value == buildSchemaFromExprIn(expr.Value, c, visited, stack)
            IN  IF IsDiverges(value) THEN Diverges
                ELSE SE(IF IsNil(value.schema) THEN [type |-> "object"]
                        ELSE [type |-> "object", additionalProperties |-> value.schema],
                        ExObj(IF IsNil(value.example) THEN EmptyMap
                              ELSE Put(EmptyMap, "key", value.example)))
      [] expr.k = "InterfaceType" -> SE([type |-> "object"], ExObj(EmptyMap))
      [] expr.k = "StructType" -> build(<<"buildStructSchemaIn", expr, c, visited, stack>>)
      [] expr.k = "SelectorExpr" ->
            IF ~IsNil(schemaForSelector(exprToString(expr)).schema)
            THEN schemaForSelector(exprToString(expr))
            ELSE IF exprToString(expr) = "gin.H" THEN SE([type |-> "object"], ExObj(EmptyMap))
            ELSE SE([type |-> "string"], ExStr(""))
      [] expr.k = "CallExpr" ->
            LET fun == expr.Fun
                byRecv == lookupFunctionResult(c, exprToString(resolveTypeFromArg(fun.X, c)), fun.Sel)
                byName == lookupFunctionResult(c, "", fun.Name)
            IN  IF fun.k = "SelectorExpr" /\ IsMarshal(exprToString(fun)) /\ Len(expr.Args) > 0
                THEN buildSchemaFromExprIn(expr.Args[1], c, visited, stack)
                ELSE IF fun.k = "SelectorExpr" /\ Len(byRecv) > 0
                THEN buildSchemaFromExprIn(byRecv[1], c, visited, stack)
                ELSE IF fun.k = "Ident" /\ fun.Name = "new" /\ Len(expr.Args) = 1
                THEN buildSchemaFromExprIn(StarExpr(expr.Args[1]), c, visited, stack)
                ELSE IF fun.k = "Ident" /\ Len(byName) > 0
                THEN buildSchemaFromExprIn(byName[1], c, visited, stack)
                ELSE SE([type |-> "object"], ExObj(EmptyMap))
      [] OTHER -> SE(Nil, Nil)

\* the loop of buildSchemaFromCompositeLiteral over lit.Elts, from element i on
arrayLiteralElts(elts, i, itemSchema, c, visited, stack, examples) ==
    IF i > Len(elts) THEN [examples |-> examples]
    ELSE LET r == build(<<"buildSchemaFromExprIn", elts[i], c, visited, stack>>)
             ex == IF IsNil(r.example) THEN defaultExampleFromSchema(itemSchema) ELSE r.example
         IN  IF IsDiverges(r) THEN Diverges
             ELSE arrayLiteralElts(elts, i + 1, itemSchema, c, visited, stack,
                                   IF IsNil(ex) THEN examples ELSE Append(examples, ex))

buildSchemaFromCompositeLiteral(lit, c, visited, stack) ==
    LET t == lit.Type
    IN  CASE IsNil(t) -> build(<<"buildMapLiteralSchema", lit, c, visited, stack>>)
          [] t.k = "StructType" -> build(<<"buildStructSchemaIn", t, c, visited, stack>>)
          [] t.k = "Ident" ->
                IF ~IsNil(c) /\ Has(c.structs, t.Name)
                THEN LET built == build(<<"buildStructSchemaIn", c.structs[t.Name], c,
                                            visited, stack>>)
                         literalExample == build(<<"buildStructLiteralExample", lit,
                                                     c.structs[t.Name], c, visited, stack>>)
                     IN  IF IsDiverges(built) \/ IsDiverges(literalExample) THEN Diverges
                         ELSE IF IsNil(literalExample) THEN built
                         ELSE SE(built.schema, ExObj(Merge(built.example.v, literalExample.v)))
                ELSE build(<<"buildSchemaFromExprIn", t, c, visited, stack>>)
          [] t.k = "MapType" -> build(<<"buildMapLiteralSchema", lit, c, visited, stack>>)
          [] t.k = "ArrayType" ->
                LET item == build(<<"buildSchemaFromExprIn", t.Elt, c, visited, stack>>)
                    looped == build(<<"arrayLiteralElts", lit.Elts, 1, item.schema, c,
                                      visited, stack, << >> >>)
                IN  IF IsDiverges(item) \/ IsDiverges(looped) THEN Diverges
                    ELSE SE([type |-> "array", items |-> item.schema],
                            ExArr(IF Len(looped.examples) = 0
                                     /\ ~IsNil(defaultExampleFromSchema(item.schema))
                                  THEN <<defaultExampleFromSchema(item.schema)>>
                                  ELSE looped.examples))
          [] t.k = "SelectorExpr" ->
                IF exprToString(t) = "gin.H" THEN build(<<"buildMapLiteralSchema", lit, c, visited, stack>>)
                ELSE build(<<"buildSchemaFromExprIn", t, c, visited, stack>>)
          [] OTHER -> build(<<"buildSchemaFromExprIn", t, c, visited, stack>>)

\* the loop of buildMapLiteralSchema over lit.Elts, from element i on;
\* acc holds properties and example
mapLiteralElts(elts, i, c, visited, stack, acc) ==
    IF i > Len(elts) THEN acc
    ELSE IF elts[i].k # "KeyValueExpr" \/ literalKeyToString(elts[i].Key) = ""
    THEN mapLiteralElts(elts, i + 1, c, visited, stack, acc)
    ELSE LET key == literalKeyToString(elts[i].Key)
             r == build(<<"buildSchemaFromExprIn", elts[i].Value, c, visited, stack>>)
             valueExample == IF IsNil(r.example) THEN defaultExampleFromSchema(r.schema)
                             ELSE r.example
         IN  IF IsDiverges(r) THEN Diverges
             ELSE mapLiteralElts(elts, i + 1, c, visited, stack,
                    [properties |-> IF IsNil(r.schema) THEN acc.properties
                                    ELSE Put(acc.properties, key, r.schema),
                     example |-> IF IsNil(valueExample) THEN acc.example
                                 ELSE Put(acc.example, key, valueExample)])

buildMapLiteralSchema(lit, c, visited, stack) ==
    LET acc == build(<<"mapLiteralElts", lit.Elts, 1, c, visited, stack,
                              [properties |-> EmptyMap, example |-> EmptyMap]>>)
    IN  IF IsDiverges(acc) THEN Diverges
        ELSE SE(IF DOMAIN acc.properties # {}
                THEN [type |-> "object", properties |-> acc.properties]
                ELSE [type |-> "object", additionalProperties |-> [type |-> "string"]],
                ExObj(acc.example))

\* the inner loop of buildStructSchema over field.Names, from name j on;
\* acc holds properties, example and requiredFields
structFieldNames(field, j, c, visited, stack, acc, built) ==
    IF j > Len(field.Names) THEN acc
    ELSE LET json == resolveJSONFieldName(field.Names[j], getStructTag(field, "json"))
             required == isFieldRequired(getStructTag(field, "json"),
                                         getStructTag(field, "binding"),
                                         getStructTag(field, "validate"))
             schema == IF fieldComment(field) # ""
                       THEN Put(built.schema, "description", fieldComment(field))
                       ELSE built.schema
             tagged == IF getStructTag(field, "example") # ""
                       THEN convertExampleValue(getStructTag(field, "example"), schema, built.example)
                       ELSE built.example
             fieldExample == IF IsNil(tagged) THEN defaultExampleFromSchema(schema) ELSE tagged
         IN  IF field.Names[j] = "" \/ json.skip \/ IsNil(built.schema)
             THEN structFieldNames(field, j + 1, c, visited, stack, acc, built)
             ELSE structFieldNames(field, j + 1, c, visited, stack,
                    [properties |-> Put(acc.properties, json.name, schema),
                     example |-> IF IsNil(fieldExample) THEN acc.example
                                 ELSE Put(acc.example, json.name, fieldExample),
                     requiredFields |-> IF required THEN Append(acc.requiredFields, json.name)
                                        ELSE acc.requiredFields],
                    built)

\* the loop of buildStructSchema over structType.Fields.List, from field i on
structFields(fields, i, c, visited, stack, acc) ==
    IF i > Len(fields) THEN acc
    ELSE LET field == fields[i]
             built == build(<<"buildSchemaFromExprIn", field.Type, c, visited, stack>>)
             embedded ==
                 [properties |-> IF ~IsNil(built.schema) /\ Has(built.schema, "properties")
                                 THEN Merge(acc.properties, built.schema.properties)
                                 ELSE acc.properties,
                  example |-> IF built.example.t = "map" THEN Merge(acc.example, built.example.v)
                              ELSE acc.example,
                  requiredFields |-> IF ~IsNil(built.schema) /\ Has(built.schema, "required")
                                     THEN acc.requiredFields \o built.schema.required
                                     ELSE acc.requiredFields]
         IN  IF Len(field.Names) = 0
             THEN IF IsDiverges(built) THEN Diverges
                  ELSE structFields(fields, i + 1, c, visited, stack, embedded)
             ELSE IF \A j \in 1..Len(field.Names) :
                        field.Names[j] = ""
                        \/ resolveJSONFieldName(field.Names[j], getStructTag(field, "json")).skip
             THEN structFields(fields, i + 1, c, visited, stack, acc)
             ELSE IF IsDiverges(built) THEN Diverges
             ELSE structFields(fields, i + 1, c, visited, stack,
                               build(<<"structFieldNames", field, 1, c, visited, stack, acc, built>>))

buildStructSchemaIn(structType, c, visited, stack) ==
    LET acc == build(<<"structFields", structType.Fields, 1, c, visited, stack,
                            [properties |-> EmptyMap, example |-> EmptyMap, requiredFields |-> << >>]>>)
    IN  IF IsDiverges(acc) THEN Diverges
        ELSE SE(IF Len(acc.requiredFields) > 0
                THEN [type |-> "object", properties |-> acc.properties,
                      required |-> acc.requiredFields]
                ELSE [type |-> "object", properties |-> acc.properties],
                ExObj(acc.example))

\* fieldLookup of buildStructLiteralExample: the last field declaring the name
fieldLookup(structType, name) ==
    LET at == {i \in 1..Len(structType.Fields) :
                  \E j \in 1..Len(structType.Fields[i].Names) :
                      structType.Fields[i].Names[j] = name /\ name # ""}
    IN  IF at = {} THEN Nil
        ELSE structType.Fields[CHOOSE i \in at : \A other \in at : other <= i]

\* the loop of buildStructLiteralExample over lit.Elts, from element i on
structLiteralElts(elts, i, structType, c, visited, stack, example) ==
    IF i > Len(elts) THEN [example |-> example]
    ELSE LET elt == elts[i]
             field == fieldLookup(structType, elt.Key.Name)
             json == resolveJSONFieldName(elt.Key.Name, getStructTag(field, "json"))
             fromValue == build(<<"buildSchemaFromExprIn", elt.Value, c, visited, stack>>)
             fromType == build(<<"buildSchemaFromExprIn", field.Type, c, visited, stack>>)
             fieldExample == IF IsNil(fromValue.example)
                             THEN defaultExampleFromSchema(fromType.schema)
                             ELSE fromValue.example
         IN  IF elt.k # "KeyValueExpr" \/ elt.Key.k # "Ident" \/ elt.Key.Name = ""
                \/ IsNil(field) \/ json.skip \/ json.name = ""
             THEN structLiteralElts(elts, i + 1, structType, c, visited, stack, example)
             ELSE IF IsDiverges(fromValue) THEN Diverges
             ELSE IF IsNil(fromValue.example) /\ IsDiverges(fromType) THEN Diverges
             ELSE structLiteralElts(elts, i + 1, structType, c, visited, stack,
                                    IF IsNil(fieldExample) THEN example
                                    ELSE Put(example, json.name, fieldExample))

\* nil, or the example map wrapped as a value
buildStructLiteralExample(lit, structType, c, visited, stack) ==
    LET named == \E i \in 1..Len(structType.Fields) :
                     \E j \in 1..Len(structType.Fields[i].Names) :
                         structType.Fields[i].Names[j] # ""
        looped == build(<<"structLiteralElts", lit.Elts, 1, structType, c, visited, stack,
                          EmptyMap>>)
    IN  IF ~named THEN Nil
        ELSE IF IsDiverges(looped) THEN Diverges
        ELSE IF DOMAIN looped.example = {} THEN Nil
        ELSE ExObj(looped.example)

\* Every call from one of the builders to another goes through build, which
\* dispatches on the callee's name.
build(call) ==
    CASE call[1] = "buildSchemaFromExprIn" ->
            buildSchemaFromExprIn(call[2], call[3], call[4], call[5])
      [] call[1] = "buildSchemaFromCompositeLiteral" ->
            buildSchemaFromCompositeLiteral(call[2], call[3], call[4], call[5])
      [] call[1] = "buildMapLiteralSchema" ->
            buildMapLiteralSchema(call[2], call[3], call[4], call[5])
      [] call[1] = "buildStructSchemaIn" ->
            buildStructSchemaIn(call[2], call[3], call[4], call[5])
      [] call[1] = "buildStructLiteralExample" ->
            buildStructLiteralExample(call[2], call[3], call[4], call[5], call[6])
      [] call[1] = "structFields" ->
            structFields(call[2], call[3], call[4], call[5], call[6], call[7])
      [] call[1] = "structFieldNames" ->
            structFieldNames(call[2], call[3], call[4], call[5], call[6], call[7], call[8])
      [] call[1] = "mapLiteralElts" ->
            mapLiteralElts(call[2], call[3], call[4], call[5], call[6], call[7])
      [] call[1] = "structLiteralElts" ->
            structLiteralElts(call[2], call[3], call[4], call[5], call[6], call[7], call[8])
      [] call[1] = "arrayLiteralElts" ->
            arrayLiteralElts(call[2], call[3], call[4], call[5], call[6], call[7], call[8])

buildStructSchema(structType, c, visited) ==
    build(<<"buildStructSchemaIn", structType, c, visited, {}>>)

buildSchemaFromExpr(expr, c, visited) ==
    build(<<"buildSchemaFromExprIn", expr, c, visited, {}>>)

-----------------------------------------------------------------------------
(* the statements that bind variables *)

ValueSpec(names, type, values) == [Names |-> names, Type |-> type, Values |-> values]

Bind(c, name, inferred, valueExpr) ==
    [c EXCEPT !.variables = Put(c.variables, name, inferred),
              !.values = Put(c.values, name, valueExpr)]

\* the loop of registerDeclarationTypes over valueSpec.Names, from name idx on
RECURSIVE declarationNames(_, _, _)
declarationNames(valueSpec, idx, c) ==
    IF idx > Len(valueSpec.Names) THEN c
    ELSE LET name == valueSpec.Names[idx]
             targetIdx == IF Len(valueSpec.Values) = 1 THEN 1 ELSE idx
             valueExpr == IF Len(valueSpec.Values) > 0 /\ targetIdx <= Len(valueSpec.Values)
                          THEN valueSpec.Values[targetIdx] ELSE Nil
             inferred == IF ~IsNil(valueSpec.Type) THEN valueSpec.Type
                         ELSE IF IsNil(valueExpr) THEN Nil
                         ELSE inferTypeFromExpr(valueExpr, c)
         IN  IF name = "_" \/ Has(c.variables, name) \/ IsNil(inferred)
             THEN declarationNames(valueSpec, idx + 1, c)
             ELSE declarationNames(valueSpec, idx + 1, Bind(c, name, inferred, valueExpr))

RECURSIVE declarationSpecs(_, _, _)
declarationSpecs(specs, i, c) ==
    IF i > Len(specs) THEN c
    ELSE declarationSpecs(specs, i + 1, declarationNames(specs[i], 1, c))

registerDeclarationTypes(decl, c) ==
    IF IsNil(c) \/ decl.Tok \notin {"VAR", "CONST"} THEN c
    ELSE declarationSpecs(decl.Specs, 1, c)

\* the loop of registerAssignmentTypes over assign.Lhs, from name idx on
RECURSIVE assignmentNames(_, _, _)
assignmentNames(assign, idx, c) ==
    IF idx > Len(assign.Lhs) THEN c
    ELSE LET name == assign.Lhs[idx]
             inferred == inferTypeFromExpr(assign.Rhs[idx], c)
         IN  IF name.k # "Ident" \/ name.Name = "_" \/ Has(c.variables, name.Name)
                \/ idx > Len(assign.Rhs) \/ IsNil(inferred)
             THEN assignmentNames(assign, idx + 1, c)
             ELSE assignmentNames(assign, idx + 1, Bind(c, name.Name, inferred, assign.Rhs[idx]))

registerAssignmentTypes(assign, c) ==
    IF IsNil(c) \/ assign.Tok # "DEFINE" THEN c ELSE assignmentNames(assign, 1, c)

registerRangeTypes(rng, c) ==
    LET collectionType == inferTypeFromExpr(rng.X, c)
    IN  IF IsNil(c) \/ rng.Tok # "DEFINE" \/ IsNil(collectionType) THEN c
        ELSE IF rng.Value.k = "Ident" /\ rng.Value.Name # "_" /\ ~Has(c.variables, rng.Value.Name)
        THEN CASE collectionType.k = "ArrayType" -> Bind(c, rng.Value.Name, collectionType.Elt, Nil)
               [] collectionType.k = "MapType" -> Bind(c, rng.Value.Name, collectionType.Value, Nil)
               [] OTHER -> c
        ELSE c

-----------------------------------------------------------------------------
(* binding calls and response calls *)

bindingMethods ==
    [Bind |-> "auto", MustBind |-> "auto", ShouldBind |-> "auto",
     BindJSON |-> "application/json", MustBindWith |-> "auto",
     ShouldBindJSON |-> "application/json", BindXML |-> "application/xml",
     ShouldBindXML |-> "application/xml", BindYAML |-> "application/x-yaml",
     ShouldBindYAML |-> "application/x-yaml", BindProto |-> "application/protobuf",
     BindProtobuf |-> "application/protobuf", ShouldBindProto |-> "application/protobuf",
     ShouldBindProtoBuf |-> "application/protobuf", BindProtoBuf |-> "application/protobuf",
     BindBodyWith |-> "auto", ShouldBindBodyWith |-> "auto"]

isBindingCall(call) == call.Fun.k = "SelectorExpr" /\ call.Fun.Sel \in DOMAIN bindingMethods

\* core.RequestBody
RequestBody(contentType, schema, example, required) ==
    [ContentType |-> contentType, Schema |-> schema, Example |-> example, Required |-> required]

\* core.Response
Response(description, example, schema, contentType) ==
    [Description |-> description, Example |-> example, Schema |-> schema,
     ContentType |-> contentType]

\* buildRequestBodyFromExpr once buildSchemaFromExpr has returned built
requestBodyOf(built) ==
    IF IsDiverges(built) THEN Diverges
    ELSE IF IsNil(built.schema) THEN Nil
    ELSE RequestBody("", built.schema, built.example, TRUE)

buildRequestBodyFromExpr(expr, c) ==
    IF IsNil(expr) THEN Nil ELSE requestBodyOf(buildSchemaFromExpr(expr, c, {}))

\* resolveRequestBody once buildRequestBodyFromExpr has returned body
completeRequestBody(call, body) ==
    LET mime == IF call.Fun.k = "SelectorExpr" /\ call.Fun.Sel \in DOMAIN bindingMethods
                   /\ bindingMethods[call.Fun.Sel] # "auto"
                THEN bindingMethods[call.Fun.Sel]
                ELSE "application/json"
    IN  IF IsDiverges(body) THEN Diverges
        ELSE IF IsNil(body) THEN Nil
        ELSE [body EXCEPT !.Required = TRUE, !.ContentType = mime]

resolveRequestBody(call, arg, c) ==
    IF IsNil(resolveTypeFromArg(arg, c)) THEN Nil
    ELSE completeRequestBody(call, buildRequestBodyFromExpr(resolveTypeFromArg(arg, c), c))

\* seen: the identifiers whose binding the recursion is resolving.
RECURSIVE resolveContentTypeFrom(_, _, _)
resolveContentTypeFrom(expr, c, seen) ==
    CASE expr.k = "BasicLit" ->
            IF expr.Kind = "STRING"
            THEN IF Unquote(expr.Value).ok THEN Unquote(expr.Value).str ELSE Trim(expr.Value, "\"")
            ELSE ""
      [] expr.k = "Ident" ->
            LET inner == seen \cup {expr.Name}
                hasValue == ~IsNil(c) /\ Has(c.values, expr.Name) /\ ~IsNil(c.values[expr.Name])
                hasType == ~IsNil(c) /\ Has(c.variables, expr.Name) /\ ~IsNil(c.variables[expr.Name])
                fromValue == resolveContentTypeFrom(c.values[expr.Name], c, inner)
                fromType == resolveContentTypeFrom(c.variables[expr.Name], c, inner)
            IN  IF expr.Name \in seen /\ (hasValue \/ hasType) THEN NoReturn
                ELSE IF hasValue /\ fromValue # "" THEN fromValue
                ELSE IF hasType /\ fromType # "" THEN fromType
                ELSE ""
      [] expr.k = "CallExpr" ->
            IF Len(expr.Args) > 0 THEN resolveContentTypeFrom(expr.Args[1], c, seen) ELSE ""
      [] expr.k = "StarExpr" -> resolveContentTypeFrom(expr.X, c, seen)
      [] expr.k = "SelectorExpr" -> exprToString(expr)
      [] OTHER -> ""

resolveContentType(expr, c) == resolveContentTypeFrom(expr, c, {})

\* (contentType, statusExpr, dataExpr, ok)
CallInfo(contentType, statusExpr, dataExpr) ==
    [contentType |-> contentType, statusExpr |-> statusExpr, dataExpr |-> dataExpr, ok |-> TRUE]
NoCallInfo == [contentType |-> "", statusExpr |-> Nil, dataExpr |-> Nil, ok |-> FALSE]

responseCallInfo(call, c) ==
    LET method == call.Fun.Sel
        n == Len(call.Args)
        ct == resolveContentType(call.Args[2], c)
    IN  IF call.Fun.k # "SelectorExpr" THEN NoCallInfo
        ELSE CASE method \in {"JSON", "IndentedJSON", "PureJSON", "SecureJSON"} /\ n >= 2 ->
                    CallInfo("application/json", call.Args[1], call.Args[2])
               [] method = "AbortWithStatusJSON" /\ n >= 2 ->
                    CallInfo("application/json", call.Args[1], call.Args[2])
               [] method = "Data" /\ n >= 3 ->
                    IF ct = NoReturn THEN Diverges
                    ELSE CallInfo(IF ct = "" THEN "application/octet-stream" ELSE ct,
                                  call.Args[1], call.Args[3])
               [] method = "String" /\ n >= 2 -> CallInfo("text/plain", call.Args[1], call.Args[2])
               [] method \in {"XML", "IndentedXML"} /\ n >= 2 ->
                    CallInfo("application/xml", call.Args[1], call.Args[2])
               [] method = "YAML" /\ n >= 2 -> CallInfo("application/x-yaml", call.Args[1], call.Args[2])
               [] method = "ProtoBuf" /\ n >= 2 ->
                    CallInfo("application/x-protobuf", call.Args[1], call.Args[2])
               [] method = "JSONP" /\ n >= 2 ->
                    CallInfo("application/javascript", call.Args[1], call.Args[2])
               [] OTHER -> NoCallInfo

-----------------------------------------------------------------------------
(* example normalisation *)

\* The values normalizeExampleWithSchema can return.  A property the example
\* lacks under its exact name takes the value of the first example key that
\* matches it case-insensitively in the iteration order of the example map,
\* which Go leaves unspecified: every matching key is a possible choice.
\* normalizeExampleWithSchema that returns the example as it is
normalizeExampleAsIs(schema, example) == {example}

RECURSIVE normalizeExampleWithSchema(_, _)
normalizeExampleWithSchema(schema, example) ==
    LET kind == IF Has(schema, "type") THEN schema.type ELSE ""
    IN  IF IsNil(schema) \/ IsNil(example) THEN {example}
        ELSE CASE kind = "array" ->
                IF example.t # "slice" THEN {example}
                ELSE LET slice == example.v
                         itemsSchema == IF Has(schema, "items") THEN schema.items ELSE Nil
                         each == [i \in 1..Len(slice) |->
                                     normalizeExampleWithSchema(itemsSchema, slice[i])]
                         all == UNION {each[i] : i \in 1..Len(slice)}
                     IN  {ExArr(normalized) :
                            normalized \in {f \in [1..Len(slice) -> all] :
                                               \A i \in 1..Len(slice) : f[i] \in each[i]}}
          [] kind = "object" ->
                IF example.t # "map" THEN {example}
                ELSE LET exMap == example.v
                         props == IF Has(schema, "properties") THEN schema.properties ELSE EmptyMap
                         \* the example keys a property can take its value from
                         sources(propName) ==
                            IF Has(exMap, propName) THEN {<<propName>>}
                            ELSE IF \E exKey \in DOMAIN exMap : EqualFold(exKey, propName)
                            THEN {<<exKey>> : exKey \in {x \in DOMAIN exMap : EqualFold(x, propName)}}
                            ELSE {<< >>}
                         allSources == UNION {sources(propName) : propName \in DOMAIN props}
                         choices == {ch \in [DOMAIN props -> allSources] :
                                        \A propName \in DOMAIN props : ch[propName] \in sources(propName)}
                         value(ch, propName) ==
                            IF ch[propName] = << >> THEN Nil ELSE exMap[ch[propName][1]]
                         usedKeys(ch) == {ch[propName][1] :
                                            propName \in {x \in DOMAIN props : ch[x] # << >>}}
                         kept(ch) == {propName \in DOMAIN props : ~IsNil(value(ch, propName))}
                         each(ch) == [propName \in kept(ch) |->
                                        normalizeExampleWithSchema(props[propName], value(ch, propName))]
                         all(ch) == UNION {each(ch)[propName] : propName \in kept(ch)}
                         rest(ch) == [exKey \in (DOMAIN exMap) \ usedKeys(ch) |-> exMap[exKey]]
                     IN  IF DOMAIN props = {} THEN {example}
                         ELSE UNION {{ExObj(Merge(rest(ch), normalized)) :
                                        normalized \in {f \in [kept(ch) -> all(ch)] :
                                                          \A propName \in kept(ch) :
                                                              f[propName] \in each(ch)[propName]}} :
                                     ch \in choices}
          [] OTHER -> {example}

-----------------------------------------------------------------------------
(* analyzeHandlerDetails: the callback ast.Inspect runs on each node *)

handlerAnalysis(requestBody, responses) == [RequestBody |-> requestBody, Responses |-> responses]

\* the callback's effect: the context and the analysis it leaves, or no
\* return at all
Visited(c, a) == [ctx |-> c, analysis |-> a, returns |-> TRUE]
Overflow(c, a) == [ctx |-> c, analysis |-> a, returns |-> FALSE]

\* case *ast.CallExpr, the binding half
recordRequestBody(resolved, c, a) ==
    IF IsDiverges(resolved) THEN Overflow(c, a)
    ELSE IF ~IsNil(resolved) THEN Visited(c, [a EXCEPT !.RequestBody = resolved])
    ELSE Visited(c, a)

\* visitBinding without the test that no request body is recorded yet
visitBindingLastWins(node, c, a) ==
    IF isBindingCall(node) /\ Len(node.Args) > 0
    THEN recordRequestBody(resolveRequestBody(node, node.Args[1], c), c, a)
    ELSE Visited(c, a)

visitBinding(node, c, a) ==
    IF IsNil(a.RequestBody) /\ isBindingCall(node) /\ Len(node.Args) > 0
    THEN recordRequestBody(resolveRequestBody(node, node.Args[1], c), c, a)
    ELSE Visited(c, a)

\* responsesOf that records the schema and leaves the example out
responsesOfSchemaOnly(info, statusCode, built) ==
    {Response(IF statusTextFromCode(statusCode) = "" THEN "Response"
              ELSE statusTextFromCode(statusCode),
              Nil,
              built.schema,
              IF info.contentType = "" THEN "application/json" ELSE info.contentType)}

\* the Response a response call records, for each example the
\* normalisation can produce
responsesOf(info, statusCode, built) ==
    {Response(IF statusTextFromCode(statusCode) = "" THEN "Response"
              ELSE statusTextFromCode(statusCode),
              IF IsNil(example) THEN defaultExampleFromSchema(built.schema) ELSE example,
              built.schema,
              IF info.contentType = "" THEN "application/json" ELSE info.contentType) :
        example \in normalizeExampleWithSchema(built.schema, built.example)}

\* recordResponse that keeps the Response a status code already has
recordResponseKeepFirst(info, statusCode, built, c, a) ==
    IF IsDiverges(built) THEN {Overflow(c, a)}
    ELSE IF Has(a.Responses, statusCode) THEN {Visited(c, a)}
    ELSE {Visited(c, [a EXCEPT !.Responses = Put(@, statusCode, response)]) :
            response \in responsesOf(info, statusCode, built)}

recordResponse(info, statusCode, built, c, a) ==
    IF IsDiverges(built) THEN {Overflow(c, a)}
    ELSE {Visited(c, [a EXCEPT !.Responses = Put(@, statusCode, response)]) :
            response \in responsesOf(info, statusCode, built)}

\* case *ast.CallExpr, the response half
visitResponse(node, c, a) ==
    LET info == responseCallInfo(node, c)
        status == extractStatusCode(info.statusExpr, c)
        statusCode == IF status = "" THEN "200" ELSE status
        payloadExpr == resolveResponsePayloadExpr(info.dataExpr, c)
    IN  IF IsDiverges(info) THEN {Overflow(c, a)}
        ELSE IF ~info.ok THEN {Visited(c, a)}
        ELSE IF status = NoReturn \/ IsDiverges(payloadExpr) THEN {Overflow(c, a)}
        ELSE recordResponse(info, statusCode, buildSchemaFromExpr(payloadExpr, c, {}), c, a)

\* case *ast.CallExpr: the response half follows the binding half
visitCall(node, bound) ==
    IF ~bound.returns THEN {bound} ELSE visitResponse(node, bound.ctx, bound.analysis)

\* the outcomes of one invocation of the callback
visit(node, c, a) ==
    CASE node.k = "DeclStmt" -> {Visited(registerDeclarationTypes(node, c), a)}
      [] node.k = "AssignStmt" -> {Visited(registerAssignmentTypes(node, c), a)}
      [] node.k = "RangeStmt" -> {Visited(registerRangeTypes(node, c), a)}
      [] node.k = "CallExpr" -> visitCall(node, visitBinding(node, c, a))
      [] OTHER -> {Visited(c, a)}

\* the loop of ast.Inspect over the nodes of a body, from node i on: the
\* analyses analyzeHandlerDetails can return, Diverges among them if it can
\* fail to return
RECURSIVE inspect(_, _, _, _)
inspect(body, i, c, a) ==
    IF i > Len(body) THEN {a}
    ELSE UNION {IF out.returns THEN inspect(body, i + 1, out.ctx, out.analysis) ELSE {Diverges} :
                  out \in visit(body[i], c, a)}

analyzeHandlerDetails(body, structs, functions) ==
    inspect(body, 1, Context(structs, functions, EmptyMap, EmptyMap),
            handlerAnalysis(Nil, EmptyMap))

-----------------------------------------------------------------------------
(* the walk of the standard-library analyzer *)

\* the loop of registerRegularAssignmentTypes over assign.Lhs, from name idx on
RECURSIVE regularAssignmentNames(_, _, _)
regularAssignmentNames(assign, idx, c) ==
    IF idx > Len(assign.Lhs) THEN c
    ELSE LET name == assign.Lhs[idx]
             inferred == inferTypeFromExpr(assign.Rhs[idx], c)
         IN  IF name.k # "Ident" \/ name.Name = "_" \/ idx > Len(assign.Rhs) \/ IsNil(inferred)
             THEN regularAssignmentNames(assign, idx + 1, c)
             ELSE regularAssignmentNames(assign, idx + 1,
                                         Bind(c, name.Name, inferred, assign.Rhs[idx]))

registerRegularAssignmentTypes(assign, c) ==
    IF IsNil(c) \/ assign.Tok # "ASSIGN" THEN c ELSE regularAssignmentNames(assign, 1, c)

isStdlibBindingCall(call) ==
    /\ call.Fun.k = "SelectorExpr"
    /\ call.Fun.Sel = "Decode"
    /\ call.Fun.X.k = "CallExpr"
    /\ call.Fun.X.Fun.k = "SelectorExpr"
    /\ call.Fun.X.Fun.Sel = "NewDecoder"

\* resolveStdlibRequestBody once buildRequestBodyFromExpr has returned body
completeStdlibRequestBody(body) ==
    IF IsDiverges(body) THEN Diverges
    ELSE IF IsNil(body) THEN Nil
    ELSE [body EXCEPT !.Required = TRUE, !.ContentType = "application/json"]

resolveStdlibRequestBody(call, c) ==
    IF Len(call.Args) > 0 /\ call.Args[1].k = "UnaryExpr" /\ call.Args[1].Op = "&"
       /\ ~IsNil(resolveTypeFromArg(call.Args[1].X, c))
    THEN completeStdlibRequestBody(
             buildRequestBodyFromExpr(resolveTypeFromArg(call.Args[1].X, c), c))
    ELSE Nil

stdlibResponseCallInfo(call, c) ==
    LET fun == call.Fun
        n == Len(call.Args)
    IN  IF fun.k = "Ident" /\ fun.Name = "writeJSON" /\ n >= 3
        THEN CallInfo("application/json", call.Args[2], call.Args[3])
        ELSE IF fun.k = "Ident" /\ fun.Name = "writeError" /\ n >= 4
        THEN CallInfo("application/json", call.Args[2],
                      CompositeLit(Ident("ErrorResponse"), << >>))
        ELSE IF fun.k = "SelectorExpr" /\ fun.Sel = "Encode" /\ n >= 1
                /\ fun.X.k = "CallExpr" /\ fun.X.Fun.k = "SelectorExpr"
                /\ fun.X.Fun.Sel = "NewEncoder"
        THEN CallInfo("application/json", BasicLit("INT", "200"), call.Args[1])
        ELSE IF fun.k = "SelectorExpr" /\ fun.Sel = "WriteHeader" /\ n >= 1
        THEN CallInfo("application/json", call.Args[1], Nil)
        ELSE IF fun.k = "SelectorExpr" /\ fun.Sel = "JSON" /\ n >= 2
        THEN CallInfo("application/json", call.Args[1], call.Args[2])
        ELSE NoCallInfo

\* case *ast.CallExpr, the binding half
visitStdlibBinding(node, c, a) ==
    IF IsNil(a.RequestBody) /\ isStdlibBindingCall(node)
    THEN recordRequestBody(resolveStdlibRequestBody(node, c), c, a)
    ELSE Visited(c, a)

\* case *ast.CallExpr, the response half
visitStdlibResponse(node, c, a) ==
    LET info == stdlibResponseCallInfo(node, c)
        status == extractStatusCode(info.statusExpr, c)
        statusCode == IF status = "" THEN "200" ELSE status
        payloadExpr == resolveResponsePayloadExpr(info.dataExpr, c)
    IN  IF ~info.ok THEN {Visited(c, a)}
        ELSE IF status = NoReturn \/ IsDiverges(payloadExpr) THEN {Overflow(c, a)}
        ELSE recordResponse(info, statusCode, buildSchemaFromExpr(payloadExpr, c, {}), c, a)

visitStdlibCall(node, bound) ==
    IF ~bound.returns THEN {bound} ELSE visitStdlibResponse(node, bound.ctx, bound.analysis)

\* the outcomes of one invocation of the callback of analyzeStdlibHandlerDetails
visitStdlib(node, c, a) ==
    CASE node.k = "DeclStmt" -> {Visited(registerDeclarationTypes(node, c), a)}
      [] node.k = "AssignStmt" ->
            {Visited(registerRegularAssignmentTypes(node, registerAssignmentTypes(node, c)), a)}
      [] node.k = "RangeStmt" -> {Visited(registerRangeTypes(node, c), a)}
      [] node.k = "CallExpr" -> visitStdlibCall(node, visitStdlibBinding(node, c, a))
      [] OTHER -> {Visited(c, a)}

RECURSIVE inspectStdlib(_, _, _, _)
inspectStdlib(body, i, c, a) ==
    IF i > Len(body) THEN {a}
    ELSE UNION {IF out.returns THEN inspectStdlib(body, i + 1, out.ctx, out.analysis)
                ELSE {Diverges} :
                  out \in visitStdlib(body[i], c, a)}

analyzeStdlibHandlerDetails(body, structs, functions) ==
    inspectStdlib(body, 1, Context(structs, functions, EmptyMap, EmptyMap),
                  handlerAnalysis(Nil, EmptyMap))

-----------------------------------------------------------------------------
(* the walk of one handler body, node by node *)

\* the longest body walked
MaxBody == 3

NoTag == EmptyMap

\* type User struct { ID int `json:"id" example:"123"`; Name string `json:"name"` }
UserStruct ==
    StructType(<<Field(<<"ID">>, Ident("int"), [json |-> "id", example |-> "123"], ""),
                 Field(<<"Name">>, Ident("string"), [json |-> "name"], "")>>)

\* type Login struct { Username string `json:"username" binding:"required"` }
LoginStruct ==
    StructType(<<Field(<<"Username">>, Ident("string"),
                       [json |-> "username", binding |-> "required"], "")>>)

\* the structs and functions collected from the handler's package
PkgStructs == [User |-> UserStruct, Login |-> LoginStruct]
PkgFunctions == EmptyMap

Method(name, args) == CallExpr(SelectorExpr(Ident("c"), name), args)

\* the nodes a body is made of, as Go source
Statements ==
    { \* code := 201
      AssignStmt("DEFINE", <<Ident("code")>>, <<IntLit("201")>>),
      \* var code int = 201
      DeclStmt("VAR", <<ValueSpec(<<"code">>, Ident("int"), <<IntLit("201")>>)>>),
      \* const created = http.StatusCreated
      DeclStmt("CONST", <<ValueSpec(<<"created">>, Nil, <<Sel("http", "StatusCreated")>>)>>),
      \* item := item
      AssignStmt("DEFINE", <<Ident("item")>>, <<Ident("item")>>),
      \* var req User
      DeclStmt("VAR", <<ValueSpec(<<"req">>, Ident("User"), << >>)>>),
      \* for _, u := range []User{}
      RangeStmt("DEFINE", Ident("u"), CompositeLit(ArrayType(Ident("User")), << >>)),
      \* c.ShouldBindJSON(&req)
      Method("ShouldBindJSON", <<UnaryExpr("&", Ident("req"))>>),
      \* c.BindXML(new(Login))
      Method("BindXML", <<CallExpr(Ident("new"), <<Ident("Login")>>)>>),
      \* c.JSON(code, gin.H{"msg": "ok"})
      Method("JSON", <<Ident("code"),
                       CompositeLit(Sel("gin", "H"),
                                    <<KeyValueExpr(StringLit("\"msg\""), StringLit("\"ok\""))>>)>>),
      \* c.JSON(http.StatusCreated, req)
      Method("JSON", <<Sel("http", "StatusCreated"), Ident("req")>>),
      \* c.String(created, "done")
      Method("String", <<Ident("created"), StringLit("\"done\"")>>),
      \* c.JSON(item, u)
      Method("JSON", <<Ident("item"), Ident("u")>>),
      \* c.JSON(http.StatusOK, User{ID: 7, Name: "Ann"})
      Method("JSON", <<Sel("http", "StatusOK"),
                       CompositeLit(Ident("User"),
                                    <<KeyValueExpr(Ident("ID"), IntLit("7")),
                                      KeyValueExpr(Ident("Name"), StringLit("\"Ann\""))>>)>>),
      \* c.JSON(http.StatusOK, users[0])
      Method("JSON", <<Sel("http", "StatusOK"), IndexExpr(Ident("users"), IntLit("0"))>>) }

\* the Responses a response call builds, none if building one never returns
builtBy(info, statusCode, built) ==
    IF IsDiverges(built) THEN {} ELSE responsesOf(info, statusCode, built)

\* what the callback met at one node: the context it ran in, the request body
\* the node resolves to as a binding call, the status expression, status
\* code and resolved payload expression of the node as a response call, the
\* Responses it builds, and whether the callback returned
Note(node, c, out) ==
    LET binding == node.k = "CallExpr" /\ isBindingCall(node) /\ Len(node.Args) > 0
        info == IF node.k = "CallExpr" THEN responseCallInfo(node, c) ELSE NoCallInfo
        responds == ~IsDiverges(info) /\ info.ok
        status == IF responds THEN extractStatusCode(info.statusExpr, c) ELSE ""
        code == IF status = "" THEN "200" ELSE status
        payloadExpr == resolveResponsePayloadExpr(info.dataExpr, c)
    IN  [ctx |-> c,
         binding |-> binding,
         body |-> IF binding THEN resolveRequestBody(node, node.Args[1], c) ELSE Nil,
         responds |-> responds,
         statusExpr |-> IF responds THEN info.statusExpr ELSE Nil,
         code |-> IF responds THEN code ELSE "",
         payload |-> IF responds /\ ~IsDiverges(payloadExpr) THEN payloadExpr ELSE Nil,
         built |-> IF responds /\ status # NoReturn /\ ~IsDiverges(payloadExpr)
                   THEN builtBy(info, code, buildSchemaFromExpr(payloadExpr, c, {}))
                   ELSE {},
         returns |-> out.returns]

\* no lookup, no walk, no schema construction is under way
CacheIdle ==
    /\ analysisCache = EmptyMap /\ heap = << >> /\ readers = {} /\ writer = {}
    /\ pc = << >> /\ dir = << >> /\ ret = << >> /\ via = << >> /\ missed = << >>
    /\ handlers = << >> /\ declIdx = << >> /\ fileOrder = << >>
    /\ calls = << >> /\ parses = << >>
    /\ returned = << >> /\ dirPkg = << >>
WalkIdle == fn = << >> /\ ctx = Nil /\ analysis = Nil /\ trail = << >>
SchemaIdle == sbArgs = Nil /\ sbResult = Nil
DocsIdle ==
    /\ authConfig = Nil /\ templatesOnDisk = FALSE /\ now = 0 /\ sessionAuth = Nil
    /\ issued = << >> /\ wrong = << >> /\ banStart = << >> /\ exchange = Nil
LookupIdle == lookup = Nil
BuilderIdle ==
    /\ catalog = << >> /\ visitedNames = << >> /\ frames = << >> /\ cur = Nil
    /\ expansions = << >>
BansIdle == middleware = Nil /\ requests = << >> /\ wall = 0 /\ removed = {}
ScenarioIdle == scenarios = << >> /\ scenarioCounter = 0 /\ creators = << >> /\ created = {} /\ unixTime = 0
MuxIdle == wrapper = Nil /\ handed = << >> /\ globalGorillaDocs = Nil /\ docsServed = 0 /\ lastOp = Nil
AppIdle == LookupIdle /\ BuilderIdle /\ BansIdle /\ ScenarioIdle /\ MuxIdle
IdleButLookup == WalkIdle /\ SchemaIdle /\ DocsIdle /\ BuilderIdle /\ BansIdle /\ ScenarioIdle /\ MuxIdle
IdleButBuilder == CacheIdle /\ WalkIdle /\ SchemaIdle /\ DocsIdle /\ LookupIdle /\ BansIdle /\ ScenarioIdle /\ MuxIdle
IdleButBans == CacheIdle /\ WalkIdle /\ SchemaIdle /\ DocsIdle /\ LookupIdle /\ BuilderIdle /\ ScenarioIdle /\ MuxIdle
IdleButScenario == CacheIdle /\ WalkIdle /\ SchemaIdle /\ DocsIdle /\ LookupIdle /\ BuilderIdle /\ BansIdle /\ MuxIdle
IdleButMux == CacheIdle /\ WalkIdle /\ SchemaIdle /\ DocsIdle /\ LookupIdle /\ BuilderIdle /\ BansIdle /\ ScenarioIdle

InitWalk ==
    /\ fn = << >>
    /\ ctx = Context(PkgStructs, PkgFunctions, EmptyMap, EmptyMap)
    /\ analysis = handlerAnalysis(Nil, EmptyMap)
    /\ trail = << >>
    /\ fatal = FALSE
    /\ CacheIdle
    /\ SchemaIdle
    /\ DocsIdle
    /\ AppIdle

\* ast.Inspect calls the callback on the next node of the body
Visit(node) ==
    /\ ~fatal
    /\ Len(fn) < MaxBody
    /\ \E out \in visit(node, ctx, analysis) :
        /\ fn' = Append(fn, node)
        /\ ctx' = out.ctx
        /\ analysis' = out.analysis
        /\ fatal' = ~out.returns
        /\ trail' = Append(trail, Note(node, ctx, out))
    /\ UNCHANGED <<analysisCache, heap, readers, writer, pc, dir, ret, via, missed,
                   handlers, declIdx, fileOrder, calls, parses, returned, dirPkg>>
    /\ UNCHANGED <<schemaVars, docsVars, appVars>>

VisitDeclStmt == \E node \in Statements : node.k = "DeclStmt" /\ Visit(node)
VisitAssignStmt == \E node \in Statements : node.k = "AssignStmt" /\ Visit(node)
VisitRangeStmt == \E node \in Statements : node.k = "RangeStmt" /\ Visit(node)
VisitCallExpr == \E node \in Statements : node.k = "CallExpr" /\ Visit(node)

NextWalk == VisitDeclStmt \/ VisitAssignStmt \/ VisitRangeStmt \/ VisitCallExpr

SpecWalk == InitWalk /\ [][NextWalk]_vars

-----------------------------------------------------------------------------
(* the walk of one net/http handler body, node by node *)

Func(name, args) == CallExpr(Ident(name), args)
Chain(pkg, ctor, arg, method, args) ==
    CallExpr(SelectorExpr(CallExpr(Sel(pkg, ctor), <<arg>>), method), args)

StdlibStatements ==
    { \* var out any
      DeclStmt("VAR", <<ValueSpec(<<"out">>, Ident("any"), << >>)>>),
      \* var user User
      DeclStmt("VAR", <<ValueSpec(<<"user">>, Ident("User"), << >>)>>),
      \* status := 200
      AssignStmt("DEFINE", <<Ident("status")>>, <<IntLit("200")>>),
      \* status = http.StatusCreated
      AssignStmt("ASSIGN", <<Ident("status")>>, <<Sel("http", "StatusCreated")>>),
      \* out = User{ID: 7, Name: "Ann"}
      AssignStmt("ASSIGN", <<Ident("out")>>,
                 <<CompositeLit(Ident("User"),
                                <<KeyValueExpr(Ident("ID"), IntLit("7")),
                                  KeyValueExpr(Ident("Name"), StringLit("\"Ann\""))>>)>>),
      \* out = Login{}
      AssignStmt("ASSIGN", <<Ident("out")>>, <<CompositeLit(Ident("Login"), << >>)>>),
      \* user.Name = "Bob"
      AssignStmt("ASSIGN", <<Sel("user", "Name")>>, <<StringLit("\"Bob\"")>>),
      \* for _, out := range []Login{}
      RangeStmt("DEFINE", Ident("out"), CompositeLit(ArrayType(Ident("Login")), << >>)),
      \* json.NewDecoder(r.Body).Decode(&user)
      Chain("json", "NewDecoder", Sel("r", "Body"), "Decode", <<UnaryExpr("&", Ident("user"))>>),
      \* json.NewEncoder(w).Encode(out)
      Chain("json", "NewEncoder", Ident("w"), "Encode", <<Ident("out")>>),
      \* writeJSON(w, status, out)
      Func("writeJSON", <<Ident("w"), Ident("status"), Ident("out")>>),
      \* writeError(w, http.StatusBadRequest, "bad request", "no body")
      Func("writeError", <<Ident("w"), Sel("http", "StatusBadRequest"),
                           StringLit("\"bad request\""), StringLit("\"no body\"")>>),
      \* w.WriteHeader(status)
      CallExpr(Sel("w", "WriteHeader"), <<Ident("status")>>) }

InitStdlibWalk ==
    /\ fn = << >>
    /\ ctx = Context(PkgStructs, PkgFunctions, EmptyMap, EmptyMap)
    /\ analysis = handlerAnalysis(Nil, EmptyMap)
    /\ trail = << >>
    /\ fatal = FALSE
    /\ CacheIdle
    /\ SchemaIdle
    /\ DocsIdle
    /\ AppIdle

\* ast.Inspect calls the callback of analyzeStdlibHandlerDetails on the next node
VisitStdlib(node) ==
    /\ ~fatal
    /\ Len(fn) < MaxBody
    /\ \E out \in visitStdlib(node, ctx, analysis) :
        /\ fn' = Append(fn, node)
        /\ ctx' = out.ctx
        /\ analysis' = out.analysis
        /\ fatal' = ~out.returns
    /\ UNCHANGED <<analysisCache, heap, readers, writer, pc, dir, ret, via, missed,
                   handlers, declIdx, fileOrder, calls, parses, returned, dirPkg>>
    /\ UNCHANGED <<trail, schemaVars, docsVars, appVars>>

StdlibDeclStmt == \E node \in StdlibStatements : node.k = "DeclStmt" /\ VisitStdlib(node)
StdlibAssignStmt == \E node \in StdlibStatements : node.k = "AssignStmt" /\ VisitStdlib(node)
StdlibRangeStmt == \E node \in StdlibStatements : node.k = "RangeStmt" /\ VisitStdlib(node)
StdlibCallExpr == \E node \in StdlibStatements : node.k = "CallExpr" /\ VisitStdlib(node)

NextStdlibWalk == StdlibDeclStmt \/ StdlibAssignStmt \/ StdlibRangeStmt \/ StdlibCallExpr

SpecStdlibWalk == InitStdlibWalk /\ [][NextStdlibWalk]_vars

\* C25: during the walk of one handler body, the binding recorded for a name
\* (its inferred type and its origin value) is never replaced by a later
\* statement that binds or assigns the same name
C25_BindingKept ==
    [][\A name \in DOMAIN ctx.variables :
          /\ name \in DOMAIN ctx'.variables
          /\ ctx'.variables[name] = ctx.variables[name]
          /\ ctx'.values[name] = ctx.values[name]]_vars

-----------------------------------------------------------------------------
(* the walk of one Fiber handler body, node by node *)

fiberBindingMethods == [BodyParser |-> "auto"]

isFiberBindingCall(call) ==
    call.Fun.k = "SelectorExpr" /\ call.Fun.Sel \in DOMAIN fiberBindingMethods

\* resolveFiberRequestBody once buildRequestBodyFromExpr has returned body
completeFiberRequestBody(call, body) ==
    LET fixed == call.Fun.k = "SelectorExpr" /\ call.Fun.Sel \in DOMAIN fiberBindingMethods
                 /\ fiberBindingMethods[call.Fun.Sel] # "auto"
        mime == IF body.ContentType # "" THEN body.ContentType
                ELSE IF fixed THEN fiberBindingMethods[call.Fun.Sel]
                ELSE "application/json"
    IN  IF IsDiverges(body) THEN Diverges
        ELSE IF IsNil(body) THEN Nil
        ELSE [body EXCEPT !.Required = TRUE, !.ContentType = mime]

resolveFiberRequestBody(call, arg, c) ==
    IF IsNil(resolveTypeFromArg(arg, c)) THEN Nil
    ELSE completeFiberRequestBody(call, buildRequestBodyFromExpr(resolveTypeFromArg(arg, c), c))

\* token.Token(9) is token.STRING; token.Token(10) is literal_end, the kind
\* of no literal
fiberResponseCallInfo(call, c) ==
    LET method == call.Fun.Sel
        n == Len(call.Args)
    IN  IF call.Fun.k # "SelectorExpr" THEN NoCallInfo
        ELSE CASE method = "JSON" /\ n >= 1 ->
                    CallInfo("application/json", BasicLit("STRING", "200"), call.Args[1])
               [] method = "String" /\ n >= 1 ->
                    CallInfo("text/plain", BasicLit("STRING", "200"), call.Args[1])
               [] method = "XML" /\ n >= 1 ->
                    CallInfo("application/xml", BasicLit("STRING", "200"), call.Args[1])
               [] method = "SendFile" /\ n >= 1 ->
                    CallInfo("application/octet-stream", BasicLit("STRING", "200"), call.Args[1])
               [] method = "SendStatus" /\ n >= 1 ->
                    CallInfo("", call.Args[1], BasicLit("literal_end", "\"\""))
               [] OTHER -> NoCallInfo

\* case *ast.CallExpr, the binding half
visitFiberBinding(node, c, a) ==
    IF IsNil(a.RequestBody) /\ isFiberBindingCall(node) /\ Len(node.Args) > 0
    THEN recordRequestBody(resolveFiberRequestBody(node, node.Args[1], c), c, a)
    ELSE Visited(c, a)

\* case *ast.CallExpr, the response half
visitFiberResponse(node, c, a) ==
    LET info == fiberResponseCallInfo(node, c)
        status == extractStatusCode(info.statusExpr, c)
        statusCode == IF status = "" THEN "200" ELSE status
        payloadExpr == resolveResponsePayloadExpr(info.dataExpr, c)
    IN  IF ~info.ok THEN {Visited(c, a)}
        ELSE IF status = NoReturn \/ IsDiverges(payloadExpr) THEN {Overflow(c, a)}
        ELSE recordResponse(info, statusCode, buildSchemaFromExpr(payloadExpr, c, {}), c, a)

visitFiberCall(node, bound) ==
    IF ~bound.returns THEN {bound} ELSE visitFiberResponse(node, bound.ctx, bound.analysis)

\* the outcomes of one invocation of the callback of analyzeFiberHandlerDetails
visitFiber(node, c, a) ==
    CASE node.k = "DeclStmt" -> {Visited(registerDeclarationTypes(node, c), a)}
      [] node.k = "AssignStmt" -> {Visited(registerAssignmentTypes(node, c), a)}
      [] node.k = "RangeStmt" -> {Visited(registerRangeTypes(node, c), a)}
      [] node.k = "CallExpr" -> visitFiberCall(node, visitFiberBinding(node, c, a))
      [] OTHER -> {Visited(c, a)}

\* c.Status(s): the receiver of a chained call
Status(s) == CallExpr(Sel("c", "Status"), <<s>>)
\* c.Status(s).method(args)
StatusChain(s, method, args) == CallExpr(SelectorExpr(Status(s), method), args)

\* ast.Inspect reaches the call c.Status(s) as a child of the chained call
FiberStatements ==
    { \* var user User
      DeclStmt("VAR", <<ValueSpec(<<"user">>, Ident("User"), << >>)>>),
      \* users := []User{}
      AssignStmt("DEFINE", <<Ident("users")>>, <<CompositeLit(ArrayType(Ident("User")), << >>)>>),
      \* for _, u := range users
      RangeStmt("DEFINE", Ident("u"), Ident("users")),
      \* c.BodyParser(&user)
      Method("BodyParser", <<UnaryExpr("&", Ident("user"))>>),
      \* c.JSON(user)
      Method("JSON", <<Ident("user")>>),
      \* c.SendStatus(204)
      Method("SendStatus", <<IntLit("204")>>),
      \* c.Status(201).JSON(user)
      StatusChain(IntLit("201"), "JSON", <<Ident("user")>>),
      Status(IntLit("201")),
      \* c.Status(400).JSON(map[string]string{"error": "invalid request body"})
      StatusChain(IntLit("400"), "JSON",
                  <<CompositeLit(MapType(Ident("string"), Ident("string")),
                                 <<KeyValueExpr(StringLit("\"error\""),
                                                StringLit("\"invalid request body\""))>>)>>),
      Status(IntLit("400")),
      \* c.Status(fiber.StatusNotFound).SendString("no such user")
      StatusChain(Sel("fiber", "StatusNotFound"), "SendString",
                  <<StringLit("\"no such user\"")>>),
      Status(Sel("fiber", "StatusNotFound")) }

InitFiberWalk ==
    /\ fn = << >>
    /\ ctx = Context(PkgStructs, PkgFunctions, EmptyMap, EmptyMap)
    /\ analysis = handlerAnalysis(Nil, EmptyMap)
    /\ trail = << >>
    /\ fatal = FALSE
    /\ CacheIdle
    /\ SchemaIdle
    /\ DocsIdle
    /\ AppIdle

\* ast.Inspect calls the callback of analyzeFiberHandlerDetails on the next node
VisitFiber(node) ==
    /\ ~fatal
    /\ Len(fn) < MaxBody
    /\ \E out \in visitFiber(node, ctx, analysis) :
        /\ fn' = Append(fn, node)
        /\ ctx' = out.ctx
        /\ analysis' = out.analysis
        /\ fatal' = ~out.returns
    /\ UNCHANGED <<analysisCache, heap, readers, writer, pc, dir, ret, via, missed,
                   handlers, declIdx, fileOrder, calls, parses, returned, dirPkg>>
    /\ UNCHANGED <<trail, schemaVars, docsVars, appVars>>

FiberDeclStmt == \E node \in FiberStatements : node.k = "DeclStmt" /\ VisitFiber(node)
FiberAssignStmt == \E node \in FiberStatements : node.k = "AssignStmt" /\ VisitFiber(node)
FiberRangeStmt == \E node \in FiberStatements : node.k = "RangeStmt" /\ VisitFiber(node)
FiberCallExpr == \E node \in FiberStatements : node.k = "CallExpr" /\ VisitFiber(node)

NextFiberWalk == FiberDeclStmt \/ FiberAssignStmt \/ FiberRangeStmt \/ FiberCallExpr

SpecFiberWalk == InitFiberWalk /\ [][NextFiberWalk]_vars

\* the node is a response emitted in the chained form c.Status(s).JSON(v)
IsStatusJSON(node) ==
    /\ node.k = "CallExpr" /\ node.Fun.k = "SelectorExpr" /\ node.Fun.Sel = "JSON"
    /\ Len(node.Args) >= 1
    /\ node.Fun.X.k = "CallExpr" /\ node.Fun.X.Fun.k = "SelectorExpr"
    /\ node.Fun.X.Fun.Sel = "Status" /\ Len(node.Fun.X.Args) = 1

\* C23: in a Fiber handler, a response emitted in the chained form
\* c.Status(s).JSON(v) is recorded under status code s
C23_ChainedStatusRecorded ==
    \A i \in 1..Len(fn) :
        IsStatusJSON(fn[i]) /\ ~fatal =>
            extractStatusCode(fn[i].Fun.X.Args[1], Nil) \in DOMAIN analysis.Responses

-----------------------------------------------------------------------------
(* properties of the walk *)

\* the positions of the walk at which a response call was visited
ResponseCalls == {i \in 1..Len(trail) : trail[i].responds}

\* the positions of the walk at which a binding call was visited
BindingCalls == {i \in 1..Len(trail) : trail[i].binding}

Least(S) == CHOOSE i \in S : \A j \in S : i <= j
Greatest(S) == CHOOSE i \in S : \A j \in S : j <= i

\* the status argument names the HTTP-status constant that equals 201
NamesCreated(expr) == expr.k = "SelectorExpr" /\ expr.X = Ident("http") /\ expr.Sel = "StatusCreated"

\* the status argument is an identifier that leads to no number: it has no
\* binding, or it is bound to itself
Unresolvable(expr, c) ==
    /\ expr.k = "Ident"
    /\ (~Has(c.variables, expr.Name) \/ c.variables[expr.Name] = expr)

\* the response call visited at position i left a Response under the code
RecordedUnder(i, code) ==
    /\ trail[i].returns
    /\ trail[i].code = code
    /\ Has(analysis.Responses, code)

\* C4 (walk): the analysis of a handler body returns whatever identifier
\* bindings its statements create; no body makes status-code resolution or
\* schema construction run forever.
C4_WalkReturns == ~fatal

\* C6: a response call whose status argument is the named constant equal to
\* 201 is recorded under "201" with the description "Created", and a response
\* call whose status cannot be resolved is recorded under "200".
C6_StatusRecorded ==
    \A i \in ResponseCalls :
        /\ NamesCreated(trail[i].statusExpr) =>
              /\ RecordedUnder(i, "201")
              /\ analysis.Responses["201"].Description = "Created"
        /\ Unresolvable(trail[i].statusExpr, trail[i].ctx) => RecordedUnder(i, "200")

\* the status code a statement binds the name to, "" if it binds it to none:
\* a define-assignment or a var/const declaration whose value for the name is
\* a decimal literal or a named HTTP-status symbol
StatusOf(value) ==
    CASE value.k = "BasicLit" /\ value.Kind = "INT" -> value.Value
      [] value.k = "SelectorExpr" /\ value.Sel \in DOMAIN httpStatusNameMap ->
            Itoa(httpStatusNameMap[value.Sel])
      [] OTHER -> ""

BindsStatus(node, name) ==
    CASE node.k = "AssignStmt" /\ node.Tok = "DEFINE" ->
            IF \E idx \in 1..Len(node.Lhs) : node.Lhs[idx] = Ident(name) /\ idx <= Len(node.Rhs)
            THEN StatusOf(node.Rhs[CHOOSE idx \in 1..Len(node.Lhs) : node.Lhs[idx] = Ident(name)])
            ELSE ""
      [] node.k = "DeclStmt" /\ node.Tok \in {"VAR", "CONST"} ->
            IF \E sp \in 1..Len(node.Specs) :
                  Len(node.Specs[sp].Names) = 1 /\ node.Specs[sp].Names[1] = name
                  /\ Len(node.Specs[sp].Values) = 1
            THEN StatusOf(node.Specs[CHOOSE sp \in 1..Len(node.Specs) :
                                        Len(node.Specs[sp].Names) = 1
                                        /\ node.Specs[sp].Names[1] = name
                                        /\ Len(node.Specs[sp].Values) = 1].Values[1])
            ELSE ""
      [] OTHER -> ""

\* the statements before position i that bind the name to a status code
StatusBindings(i, name) == {j \in 1..(i - 1) : BindsStatus(fn[j], name) # ""}

\* C7: a response call whose status argument is an identifier bound earlier in
\* the body, by a declaration statement or a define-assignment, to a numeric
\* literal or a named HTTP-status symbol is recorded under that status code.
C7_BoundStatusRecorded ==
    \A i \in ResponseCalls :
        LET e == trail[i].statusExpr
        IN  (e.k = "Ident" /\ StatusBindings(i, e.Name) # {}) =>
                RecordedUnder(i, BindsStatus(fn[Greatest(StatusBindings(i, e.Name))], e.Name))

\* the response calls that resolved to the code
CallsFor(code) == {i \in ResponseCalls : trail[i].returns /\ trail[i].code = code}

\* C8: for each status code, the Response held in the responses map is the one
\* built from the last response call that resolved to that code; earlier calls
\* with the code are overwritten and calls with other codes leave it alone.
C8_LastResponseWins ==
    /\ DOMAIN analysis.Responses = {trail[i].code : i \in {j \in ResponseCalls : trail[j].returns}}
    /\ \A code \in DOMAIN analysis.Responses :
          analysis.Responses[code] \in trail[Greatest(CallsFor(code))].built

\* C8 witness: two response calls resolved to one code and built different
\* Responses, and a call with another code came between or after them.
C8_Overwritten ==
    \E i, j \in ResponseCalls :
        /\ i < j /\ trail[i].returns /\ trail[j].returns
        /\ trail[i].code = trail[j].code
        /\ trail[i].built \cap trail[j].built = {}
        /\ j = Greatest(CallsFor(trail[j].code))
        /\ \E other \in ResponseCalls : trail[other].returns /\ trail[other].code # trail[i].code

\* the binding calls whose argument resolves to a request body
ResolvedBindings ==
    {i \in BindingCalls : ~IsNil(trail[i].body) /\ ~IsDiverges(trail[i].body)}

OverriddenFields(lit, c) ==
    IF lit.k = "CompositeLit" /\ ~IsNil(lit.Type) /\ lit.Type.k = "Ident"
       /\ Has(c.structs, lit.Type.Name)
    THEN LET fields == c.structs[lit.Type.Name].Fields
         IN  {[name |-> resolveJSONFieldName(fields[p[2]].Names[1],
                                             getStructTag(fields[p[2]], "json")).name,
               example |-> convertExampleValue(getStructTag(fields[p[2]], "example"),
                                               primitiveSchemaForIdent(fields[p[2]].Type.Name).schema,
                                               Nil)] :
                p \in {q \in (1..Len(lit.Elts)) \X (1..Len(fields)) :
                          /\ lit.Elts[q[1]].k = "KeyValueExpr"
                          /\ lit.Elts[q[1]].Key.k = "Ident"
                          /\ fields[q[2]].Names = <<lit.Elts[q[1]].Key.Name>>
                          /\ fields[q[2]].Type.k = "Ident"
                          /\ getStructTag(fields[q[2]], "example") # ""}}
    ELSE {}

\* C11: when the payload of a response call is a struct literal that sets a
\* field whose tag carries an example override, the example recorded for that
\* field is the tag's value coerced to the field's kind, not the literal's.
C11_TagExampleWins ==
    \A i \in ResponseCalls :
        trail[i].returns =>
            \A f \in OverriddenFields(trail[i].payload, trail[i].ctx) :
                \A response \in trail[i].built :
                    /\ Has(response.Example.v, f.name)
                    /\ response.Example.v[f.name] = f.example

\* C13: every Response recorded for a handler that has a schema has an example.
C13_SchemaHasExample ==
    \A code \in DOMAIN analysis.Responses :
        ~IsNil(analysis.Responses[code].Schema) => ~IsNil(analysis.Responses[code].Example)

\* C13 witness: a response call was recorded with a schema and an example.
C13_RecordedWithSchema ==
    \E i \in ResponseCalls :
        /\ RecordedUnder(i, trail[i].code)
        /\ ~IsNil(analysis.Responses[trail[i].code].Schema)
        /\ ~IsNil(analysis.Responses[trail[i].code].Example)

\* the expression is of a kind the switch of buildSchemaFromExpr has no case for
HasNoCase(expr) ==
    expr.k \notin {"nil", "CompositeLit", "StarExpr", "BasicLit", "Ident", "ArrayType",
                   "MapType", "InterfaceType", "StructType", "SelectorExpr", "CallExpr"}

\* C14: a response call whose payload expression the analyzer cannot resolve,
\* whatever its kind, is recorded with a generic schema of type object or
\* string and a placeholder example, never with a missing schema.
C14_UnresolvedDegrades ==
    \A i \in ResponseCalls :
        (trail[i].returns /\ HasNoCase(trail[i].payload)) =>
            \A response \in trail[i].built :
                /\ ~IsNil(response.Schema)
                /\ response.Schema.type \in {"object", "string"}
                /\ ~IsNil(response.Example)

-----------------------------------------------------------------------------
(* one schema construction *)

\* the most fields the declaration of node has
MaxFields == 3

\* type peer struct { Back *node `json:"back"` }
PeerStruct == StructType(<<Field(<<"Back">>, StarExpr(Ident("node")), [json |-> "back"], "")>>)

\* type base struct { CreatedAt time.Time `json:"created_at"` }
BaseStruct ==
    StructType(<<Field(<<"CreatedAt">>, Sel("time", "Time"), [json |-> "created_at"], "")>>)

\* the fields the declaration of node is made of, as Go source
NodeFields ==
    { \* ID int `json:"id"`
      Field(<<"ID">>, Ident("int"), [json |-> "id"], ""),
      \* Label string
      Field(<<"Label">>, Ident("string"), NoTag, ""),
      \* Next *node `json:"next,omitempty"`
      Field(<<"Next">>, StarExpr(Ident("node")), [json |-> "next,omitempty"], ""),
      \* Children []node `json:"children"`
      Field(<<"Children">>, ArrayType(Ident("node")), [json |-> "children"], ""),
      \* Peer peer `json:"peer"`
      Field(<<"Peer">>, Ident("peer"), [json |-> "peer"], ""),
      \* Secret string `json:"-"`
      Field(<<"Secret">>, Ident("string"), [json |-> "-"], ""),
      \* Page page[node] `json:"page"`
      Field(<<"Page">>, IndexExpr(Ident("page"), Ident("node")), [json |-> "page"], ""),
      \* base
      Field(<< >>, Ident("base"), NoTag, "") }

RECURSIVE SeqsUpTo(_, _)
SeqsUpTo(S, n) ==
    IF n = 0 THEN {<< >>}
    ELSE SeqsUpTo(S, n - 1) \cup {Append(q, x) : q \in {r \in SeqsUpTo(S, n - 1) : Len(r) = n - 1}, x \in S}

\* the declarations of node: no field named twice
NodeStructs ==
    {StructType(fields) :
        fields \in {q \in SeqsUpTo(NodeFields, MaxFields) :
                       \A i, j \in 1..Len(q) : i # j => q[i] # q[j]}}

\* the local bindings of the handler under analysis: none, or
\* node := node{} (a variable named like its type)
LocalBindings ==
    { [variables |-> EmptyMap, values |-> EmptyMap],
      [variables |-> [node |-> Ident("node")],
       values |-> [node |-> CompositeLit(Ident("node"), << >>)]] }

NotCalled == [fn |-> "", value |-> Nil]

InitSchema ==
    /\ \E structType \in NodeStructs, local \in LocalBindings :
          sbArgs = [structType |-> structType,
                    ctx |-> Context([node |-> structType, peer |-> PeerStruct, base |-> BaseStruct],
                                    EmptyMap, local.variables, local.values)]
    /\ sbResult = NotCalled
    /\ fatal = FALSE
    /\ CacheIdle
    /\ WalkIdle
    /\ DocsIdle
    /\ AppIdle

Returned(name, value) ==
    /\ sbResult' = [fn |-> name, value |-> value]
    /\ fatal' = IsDiverges(value)
    /\ UNCHANGED <<sbArgs, analysisCache, heap, readers, writer, pc, dir, ret, via, missed,
                   handlers, declIdx, fileOrder, calls, parses, returned, dirPkg>>
    /\ UNCHANGED <<walkVars, docsVars, appVars>>

\* buildSchemaFromExpr(node, ctx, visited) with a fresh visited set
CallBuildSchemaFromExpr ==
    /\ sbResult = NotCalled
    /\ Returned("buildSchemaFromExpr", buildSchemaFromExpr(Ident("node"), sbArgs.ctx, {}))

\* buildStructSchema on the declaration with a fresh visited set
CallBuildStructSchema ==
    /\ sbResult = NotCalled
    /\ Returned("buildStructSchema", buildStructSchema(sbArgs.structType, sbArgs.ctx, {}))

NextSchema == CallBuildSchemaFromExpr \/ CallBuildStructSchema

SpecSchema == InitSchema /\ [][NextSchema]_vars

\* the declaration refers to itself: through a pointer field, a slice field,
\* or another struct that points back
SelfReferential(structType) ==
    \E i \in 1..Len(structType.Fields) :
        structType.Fields[i].Type \in {StarExpr(Ident("node")), ArrayType(Ident("node")),
                                       Ident("peer")}

\* C3: schema construction for a struct type that refers to itself returns a
\* finite schema.
C3_SelfReferenceReturns ==
    (sbResult # NotCalled /\ SelfReferential(sbArgs.structType)) => ~IsDiverges(sbResult.value)

\* the serialization names of the named fields that carry no skip marker
UnskippedNames(structType) ==
    {resolveJSONFieldName(structType.Fields[i].Names[j],
                          getStructTag(structType.Fields[i], "json")).name :
        <<i, j>> \in {p \in (1..Len(structType.Fields)) \X (1..1) :
                        /\ p[2] <= Len(structType.Fields[p[1]].Names)
                        /\ ~resolveJSONFieldName(structType.Fields[p[1]].Names[p[2]],
                                                 getStructTag(structType.Fields[p[1]], "json")).skip}}

\* C10: every field of a struct declaration that has no skip marker appears in
\* the properties of the built schema under its resolved serialization name.
C10_EveryFieldAppears ==
    (sbResult.fn = "buildStructSchema" /\ ~IsDiverges(sbResult.value)) =>
        UnskippedNames(sbArgs.structType) \subseteq DOMAIN sbResult.value.schema.properties

-----------------------------------------------------------------------------
(* one example normalisation *)

\* the most keys the example object has
MaxKeys == 3

\* the schema of the struct the examples are matched against:
\* type account struct { ID int `json:"id"`; Owner owner `json:"owner"`;
\*                       Items []owner `json:"items"` }
\* type owner struct { Email string `json:"email"` }
OwnerSchema == [type |-> "object", properties |-> [email |-> [type |-> "string"]]]
AccountProperties ==
    [id |-> [type |-> "integer"],
     owner |-> OwnerSchema,
     items |-> [type |-> "array", items |-> OwnerSchema]]

\* the schemas: an object with some of the properties, or an array of such
NormalizeSchemas ==
    LET objects == {[type |-> "object", properties |-> [p \in P |-> AccountProperties[p]]] :
                       P \in (SUBSET DOMAIN AccountProperties) \ {{}}}
    IN  objects \cup {[type |-> "array", items |-> [type |-> "object",
                                                   properties |-> AccountProperties]]}

\* the entries an example object is made of, keyed as a map literal keys them
\* (by field name, in any capitalisation) or as a struct example keys them
ExampleEntries ==
    [id |-> ExInt(1),
     ID |-> ExInt(2),
     Id |-> ExInt(3),
     Owner |-> ExObj([Email |-> ExStr("a@x.io")]),
     Items |-> ExArr(<<ExObj([EMAIL |-> ExStr("b@x.io")]), ExObj([email |-> ExStr("c@x.io")])>>),
     Note |-> ExStr("n")]

NormalizeExamples ==
    {ExObj([key \in K |-> ExampleEntries[key]]) :
        K \in {S \in SUBSET DOMAIN ExampleEntries : Cardinality(S) <= MaxKeys}}

InitNormalize ==
    /\ \E schema \in NormalizeSchemas, example \in NormalizeExamples :
          sbArgs = [schema |-> schema,
                    example |-> IF schema.type = "array" THEN ExArr(<<example>>) ELSE example]
    /\ sbResult = NotCalled
    /\ fatal = FALSE
    /\ CacheIdle
    /\ WalkIdle
    /\ DocsIdle
    /\ AppIdle

\* example = normalizeExampleWithSchema(schema, example)
CallNormalizeExampleWithSchema ==
    /\ sbResult = NotCalled
    /\ \E normalized \in normalizeExampleWithSchema(sbArgs.schema, sbArgs.example) :
          Returned("normalizeExampleWithSchema", normalized)

NextNormalize == CallNormalizeExampleWithSchema

SpecNormalize == InitNormalize /\ [][NextNormalize]_vars

\* the object case applies: an object schema with properties, an object example
ObjectCase(schema, example) ==
    /\ ~IsNil(schema) /\ ~IsNil(example)
    /\ Has(schema, "type") /\ schema.type = "object" /\ example.t = "map"
    /\ Has(schema, "properties") /\ DOMAIN schema.properties # {}

\* the array case applies: an array schema, a slice example
ArrayCase(schema, example) ==
    /\ ~IsNil(schema) /\ ~IsNil(example)
    /\ Has(schema, "type") /\ schema.type = "array" /\ example.t = "slice"

\* every key of the example that equals a property name ignoring case is
\* found under the property's name in the result, with its value, all the
\* way down
RECURSIVE EveryKeyRekeyed(_, _, _)
EveryKeyRekeyed(schema, example, result) ==
    IF ObjectCase(schema, example)
    THEN /\ result.t = "map"
         /\ \A key \in DOMAIN example.v, propName \in DOMAIN schema.properties :
                EqualFold(key, propName) =>
                    /\ Has(result.v, propName)
                    /\ EveryKeyRekeyed(schema.properties[propName], example.v[key],
                                       result.v[propName])
    ELSE IF ArrayCase(schema, example)
    THEN /\ result.t = "slice"
         /\ Len(result.v) = Len(example.v)
         /\ \A i \in 1..Len(example.v) :
                EveryKeyRekeyed(IF Has(schema, "items") THEN schema.items ELSE Nil,
                                example.v[i], result.v[i])
    ELSE result = example

\* the keys of the example a property can take its value from: the key that
\* is the property's name if there is one, else every key equal to it
\* ignoring case
KeysFor(propName, example) ==
    IF Has(example.v, propName) THEN {propName}
    ELSE {key \in DOMAIN example.v : EqualFold(key, propName)}

\* every property some key of the example stands for holds the value of one
\* such key, all the way down; a key that stands for no property keeps its
\* place and its value
RECURSIVE EveryPropertyRekeyed(_, _, _)
EveryPropertyRekeyed(schema, example, result) ==
    IF ObjectCase(schema, example)
    THEN /\ result.t = "map"
         /\ \A propName \in DOMAIN schema.properties :
                KeysFor(propName, example) # {} =>
                    /\ Has(result.v, propName)
                    /\ \E key \in KeysFor(propName, example) :
                          EveryPropertyRekeyed(schema.properties[propName], example.v[key],
                                               result.v[propName])
         /\ \A key \in DOMAIN example.v :
                (\A propName \in DOMAIN schema.properties : ~EqualFold(key, propName)) =>
                    Has(result.v, key) /\ result.v[key] = example.v[key]
    ELSE IF ArrayCase(schema, example)
    THEN /\ result.t = "slice"
         /\ Len(result.v) = Len(example.v)
         /\ \A i \in 1..Len(example.v) :
                EveryPropertyRekeyed(IF Has(schema, "items") THEN schema.items ELSE Nil,
                                     example.v[i], result.v[i])
    ELSE result = example

-----------------------------------------------------------------------------
(* loadPackageAnalysis: the per-directory cache and its lock *)

\* the goroutines that look directories up
NumThreads == 2
\* the lookups started in one run
MaxCalls == 4

Threads == 1..NumThreads

\* the nil *packageAnalysis
NilPtr == 0

\* file is the path of the declaring file, line the line of the func keyword,
\* recv the receiver's type expression (Nil for a free function)
FuncDecl(file, line, recv, name, body) ==
    [File |-> file, Line |-> line, Recv |-> recv, Name |-> name, Body |-> body]

\* receiverTypeName
receiverTypeName(recv) == IF IsNil(recv) THEN "" ELSE exprToString(recv)

\* what parser.ParseDir finds in a directory: whether the files parse, the
\* struct types they declare and their function declarations, those of one
\* file in source order
Package(parsed, structs, decls) == [parsed |-> parsed, structs |-> structs, decls |-> decls]

\* /app/handlers/users.go
\*   10 func CreateUser(c *gin.Context) { var req User; c.ShouldBindJSON(&req);
\*                                        c.JSON(http.StatusCreated, req) }
\*   20 func Ping(c *gin.Context) { c.String(200, "pong") }
\*   30 func ping(c *gin.Context) { c.String(http.StatusAccepted, "ok") }
\* /app/handlers/health.go
\*    8 func (h *Health) Ping(c *gin.Context) { c.JSON(http.StatusOK, gin.H{"msg": "ok"}) }
PkgHandlers ==
    Package(TRUE, PkgStructs,
            <<FuncDecl("/app/handlers/users.go", 10, Nil, "CreateUser",
                       <<DeclStmt("VAR", <<ValueSpec(<<"req">>, Ident("User"), << >>)>>),
                         Method("ShouldBindJSON", <<UnaryExpr("&", Ident("req"))>>),
                         Method("JSON", <<Sel("http", "StatusCreated"), Ident("req")>>)>>),
              FuncDecl("/app/handlers/users.go", 20, Nil, "Ping",
                       <<Method("String", <<IntLit("200"), StringLit("\"pong\"")>>)>>),
              FuncDecl("/app/handlers/users.go", 30, Nil, "ping",
                       <<Method("String", <<Sel("http", "StatusAccepted"), StringLit("\"ok\"")>>)>>),
              FuncDecl("/app/handlers/health.go", 8, StarExpr(Ident("Health")), "Ping",
                       <<Method("JSON", <<Sel("http", "StatusOK"),
                                          CompositeLit(Sel("gin", "H"),
                                                       <<KeyValueExpr(StringLit("\"msg\""),
                                                                      StringLit("\"ok\""))>>)>>)>>)>>)

\* a directory with a file that does not parse
PkgBroken == Package(FALSE, EmptyMap, << >>)

\* func Echo(c *gin.Context) { item := item; c.JSON(200, item) }
PkgShadow ==
    Package(TRUE, PkgStructs,
            <<FuncDecl("/app/echo/echo.go", 5, Nil, "Echo",
                       <<AssignStmt("DEFINE", <<Ident("item")>>, <<Ident("item")>>),
                         Method("JSON", <<IntLit("200"), Ident("item")>>)>>)>>)

\* the directories handlers are registered from
FileSystem ==
    ("/app/handlers" :> PkgHandlers) @@ ("/app/broken" :> PkgBroken) @@ ("/app/echo" :> PkgShadow)

Directories == DOMAIN FileSystem

\* HandlerMetadata (Info, which comes from the doc comment, is left out)
HandlerMetadata(requestBody, responses) == [RequestBody |-> requestBody, Responses |-> responses]

\* analyzedHandler
analyzedHandler(decl, a) ==
    [filePath |-> decl.File,
     funcName |-> decl.Name,
     receiverName |-> receiverTypeName(decl.Recv),
     startLine |-> decl.Line,
     metadata |-> HandlerMetadata(a.RequestBody, a.Responses)]

\* the files of a package
Files(pkg) == {pkg.decls[i].File : i \in 1..Len(pkg.decls)}

\* the orders in which a range over the map pkg.Files can yield its files
RECURSIVE Orders(_)
Orders(S) ==
    IF S = {} THEN {<< >>}
    ELSE UNION {{<<f>> \o rest : rest \in Orders(S \ {f})} : f \in S}

\* the declarations in the order one pass of collectHandlerMetadata meets
\* them: file by file in the order of the range, each file top to bottom
RECURSIVE declsInOrder(_, _)
declsInOrder(pkg, order) ==
    IF order = << >> THEN << >>
    ELSE SelectSeq(pkg.decls, LAMBDA decl : decl.File = Head(order))
         \o declsInOrder(pkg, Tail(order))

\* handlers[key] = append(handlers[key], handlerEntry)
appendHandler(m, key, entry) ==
    Put(m, key, IF Has(m, key) THEN Append(m[key], entry) ELSE <<entry>>)

\* packageAnalysis
packageAnalysis(h, functions) == [handlers |-> h, functions |-> functions]

\* strings.LastIndex(s, c) for a one-character c, counted from 1; 0 for Go's -1
LastIndex(s, c) ==
    IF \E i \in 1..Len(s) : CharAt(s, i) = c
    THEN CHOOSE i \in 1..Len(s) :
            CharAt(s, i) = c /\ \A j \in (i + 1)..Len(s) : CharAt(s, j) # c
    ELSE 0

\* the import path of the package a directory holds
ImportPath(d) == "example.com" \o d

\* runtime.Func.Name of the function compiled from a declaration in d: the
\* import path, the receiver type if any (a pointer receiver in
\* parentheses), and the name, joined by dots
RuntimeName(d, decl) ==
    LET receiver == receiverTypeName(decl.Recv)
    IN  ImportPath(d) \o "."
        \o (IF receiver = "" THEN ""
            ELSE IF HasPrefix(receiver, "*") THEN "(" \o receiver \o ")."
            ELSE receiver \o ".")
        \o decl.Name

normalizeReceiverName(receiver) ==
    LET spaced == Trim(receiver, " ")
        opened == IF HasPrefix(spaced, "(") THEN TrimPrefix(spaced, "(") ELSE spaced
    IN  IF HasSuffix(opened, ")") THEN SubSeq(opened, 1, Len(opened) - 1) ELSE opened

parseRuntimeFuncName(fullName) ==
    LET slash == LastIndex(fullName, "/")
        trimmed == IF slash # 0 THEN SubSeq(fullName, slash + 1, Len(fullName)) ELSE fullName
        lastDot == LastIndex(trimmed, ".")
        prefix == SubSeq(trimmed, 1, lastDot - 1)
        idx == LastIndex(prefix, ".")
        candidate == IF idx # 0 THEN SubSeq(prefix, idx + 1, Len(prefix)) ELSE prefix
    IN  IF lastDot = 0 THEN [funcName |-> trimmed, receiverName |-> ""]
        ELSE [funcName |-> SubSeq(trimmed, lastDot + 1, Len(trimmed)),
              receiverName |->
                  IF candidate = "" THEN ""
                  ELSE IF HasPrefix(candidate, "(") THEN normalizeReceiverName(candidate)
                  ELSE IF IsUpper(CharAt(candidate, 1)) THEN candidate
                  ELSE ""]

\* HandlerMetadata{}
NoMetadata == HandlerMetadata(Nil, Nil)

\* the loop of getHandlerMetadata over the candidates from the i-th on: the
\* first in the defining file, with the receiver, declared at or before the
\* line; Nil if there is none
RECURSIVE firstCandidate(_, _, _, _, _)
firstCandidate(candidates, i, file, receiverName, line) ==
    IF i > Len(candidates) THEN Nil
    ELSE IF candidates[i].filePath = file /\ candidates[i].receiverName = receiverName
            /\ line >= candidates[i].startLine
    THEN candidates[i]
    ELSE firstCandidate(candidates, i + 1, file, receiverName, line)

\* the record getHandlerMetadata settles on for the function compiled from
\* decl in d, given what loadPackageAnalysis returned (Nil for a nil pointer)
candidateOf(d, decl, packageMeta) ==
    LET parsed == parseRuntimeFuncName(RuntimeName(d, decl))
        key == ToLower(parsed.funcName)
    IN  IF IsNil(packageMeta) \/ ~Has(packageMeta.handlers, key) THEN Nil
        ELSE firstCandidate(packageMeta.handlers[key], 1, decl.File, parsed.receiverName,
                            decl.Line)

getHandlerMetadata(d, decl, packageMeta) ==
    IF IsNil(candidateOf(d, decl, packageMeta)) THEN NoMetadata
    ELSE candidateOf(d, decl, packageMeta).metadata

\* getGorillaMuxHandlerMetadataByName after the package analysis is loaded
getHandlerMetadataByName(funcName, packageMeta) ==
    IF IsNil(packageMeta) \/ ~Has(packageMeta.handlers, ToLower(funcName)) THEN NoMetadata
    ELSE packageMeta.handlers[ToLower(funcName)][1].metadata

\* the second lookup of loadPackageAnalysis, made under the write lock
recheckNeverHits(cache, d) == FALSE

recheck(cache, d) == Has(cache, d)

\* analysisCache[dir] = nil
forgetFailure(cache, d) == cache

cacheFailure(cache, d) == Put(cache, d, NilPtr)

\* the loop of collectHandlerMetadata is over
collectedOne(decls, i) == i > 1

collected(decls, i) == i > Len(decls)

InitCache ==
    /\ analysisCache = EmptyMap
    /\ heap = << >>
    /\ readers = {}
    /\ writer = {}
    /\ pc = [t \in Threads |-> "idle"]
    /\ dir = [t \in Threads |-> ""]
    /\ ret = [t \in Threads |-> NilPtr]
    /\ via = [t \in Threads |-> ""]
    /\ missed = [t \in Threads |-> FALSE]
    /\ handlers = [t \in Threads |-> EmptyMap]
    /\ declIdx = [t \in Threads |-> 1]
    /\ fileOrder = [t \in Threads |-> << >>]
    /\ calls = 0
    /\ parses = [d \in Directories |-> 0]
    /\ returned = [d \in Directories |-> {}]
    /\ dirPkg = FileSystem
    /\ fatal = FALSE
    /\ WalkIdle
    /\ SchemaIdle
    /\ DocsIdle
    /\ AppIdle

\* a goroutine calls loadPackageAnalysis(d)
Call(t, d) ==
    /\ ~fatal /\ pc[t] = "idle" /\ calls < MaxCalls
    /\ calls' = calls + 1
    /\ dir' = [dir EXCEPT ![t] = d]
    /\ missed' = [missed EXCEPT ![t] = FALSE]
    /\ via' = [via EXCEPT ![t] = ""]
    /\ pc' = [pc EXCEPT ![t] = "rlock"]
    /\ UNCHANGED <<analysisCache, heap, readers, writer, ret, handlers, declIdx, parses,
                   returned, dirPkg, fatal, fileOrder>>
    /\ UNCHANGED <<walkVars, schemaVars, docsVars, appVars>>

\* analysisMutex.RLock(): waits while a writer holds the lock or waits for it
RLock(t) ==
    /\ ~fatal /\ pc[t] = "rlock"
    /\ writer = {} /\ \A u \in Threads : pc[u] # "lock"
    /\ readers' = readers \cup {t}
    /\ pc' = [pc EXCEPT ![t] = "probe"]
    /\ UNCHANGED <<analysisCache, heap, writer, dir, ret, via, missed, handlers, declIdx,
                   calls, parses, returned, dirPkg, fatal, fileOrder>>
    /\ UNCHANGED <<walkVars, schemaVars, docsVars, appVars>>

\* the first lookup, then analysisMutex.RUnlock()
Probe(t) ==
    /\ ~fatal /\ pc[t] = "probe"
    /\ readers' = readers \ {t}
    /\ IF Has(analysisCache, dir[t])
       THEN /\ ret' = [ret EXCEPT ![t] = analysisCache[dir[t]]]
            /\ via' = [via EXCEPT ![t] = "read lock"]
            /\ pc' = [pc EXCEPT ![t] = "return"]
            /\ UNCHANGED missed
       ELSE /\ missed' = [missed EXCEPT ![t] = TRUE]
            /\ pc' = [pc EXCEPT ![t] = "lock"]
            /\ UNCHANGED <<ret, via>>
    /\ UNCHANGED <<analysisCache, heap, writer, dir, handlers, declIdx, calls, parses,
                   returned, dirPkg, fatal, fileOrder>>
    /\ UNCHANGED <<walkVars, schemaVars, docsVars, appVars>>

\* analysisMutex.Lock()
Lock(t) ==
    /\ ~fatal /\ pc[t] = "lock"
    /\ writer = {} /\ readers = {}
    /\ writer' = {t}
    /\ pc' = [pc EXCEPT ![t] = "recheck"]
    /\ UNCHANGED <<analysisCache, heap, readers, dir, ret, via, missed, handlers, declIdx,
                   calls, parses, returned, dirPkg, fatal, fileOrder>>
    /\ UNCHANGED <<walkVars, schemaVars, docsVars, appVars>>

\* the second lookup; a hit returns, and the deferred Unlock runs
Recheck(t) ==
    /\ ~fatal /\ pc[t] = "recheck"
    /\ IF recheck(analysisCache, dir[t])
       THEN /\ ret' = [ret EXCEPT ![t] = analysisCache[dir[t]]]
            /\ via' = [via EXCEPT ![t] = "write lock"]
            /\ writer' = {}
            /\ pc' = [pc EXCEPT ![t] = "return"]
       ELSE /\ pc' = [pc EXCEPT ![t] = "parse"]
            /\ UNCHANGED <<ret, via, writer>>
    /\ UNCHANGED <<analysisCache, heap, readers, dir, missed, handlers, declIdx, calls,
                   parses, returned, dirPkg, fatal, fileOrder>>
    /\ UNCHANGED <<walkVars, schemaVars, docsVars, appVars>>

\* analyzeDirectory: parser.ParseDir; on an error loadPackageAnalysis stores
\* nil and returns nil
ParseDir(t) ==
    /\ ~fatal /\ pc[t] = "parse"
    /\ parses' = [parses EXCEPT ![dir[t]] = @ + 1]
    /\ IF dirPkg[dir[t]].parsed
       THEN /\ handlers' = [handlers EXCEPT ![t] = EmptyMap]
            /\ declIdx' = [declIdx EXCEPT ![t] = 1]
            /\ \E order \in Orders(Files(dirPkg[dir[t]])) :
                  fileOrder' = [fileOrder EXCEPT ![t] = order]
            /\ pc' = [pc EXCEPT ![t] = "collect"]
            /\ UNCHANGED <<analysisCache, ret, via, writer>>
       ELSE /\ analysisCache' = cacheFailure(analysisCache, dir[t])
            /\ ret' = [ret EXCEPT ![t] = NilPtr]
            /\ via' = [via EXCEPT ![t] = "analysis"]
            /\ writer' = {}
            /\ pc' = [pc EXCEPT ![t] = "return"]
            /\ UNCHANGED <<handlers, declIdx, fileOrder>>
    /\ UNCHANGED <<heap, readers, dir, missed, calls, returned, dirPkg, fatal>>
    /\ UNCHANGED <<walkVars, schemaVars, docsVars, appVars>>

\* collectHandlerMetadata: the next function declaration is analysed and its
\* entry appended; an analysis that never returns kills the process
CollectHandler(t) ==
    LET pkg == dirPkg[dir[t]]
        decl == declsInOrder(pkg, fileOrder[t])[declIdx[t]]
    IN  /\ ~fatal /\ pc[t] = "collect"
        /\ ~collected(pkg.decls, declIdx[t])
        /\ \E a \in analyzeHandlerDetails(decl.Body, pkg.structs, EmptyMap) :
              IF IsDiverges(a)
              THEN /\ fatal' = TRUE
                   /\ UNCHANGED <<handlers, declIdx>>
              ELSE /\ handlers' = [handlers EXCEPT ![t] =
                                      appendHandler(@, ToLower(decl.Name),
                                                    analyzedHandler(decl, a))]
                   /\ declIdx' = [declIdx EXCEPT ![t] = @ + 1]
                   /\ UNCHANGED fatal
        /\ UNCHANGED <<analysisCache, heap, readers, writer, pc, dir, ret, via, missed,
                       calls, parses, returned, dirPkg, fileOrder>>
        /\ UNCHANGED <<walkVars, schemaVars, docsVars, appVars>>

\* Store that returns the packageAnalysis without putting it in the cache
StoreUncached(t) ==
    /\ ~fatal /\ pc[t] = "collect"
    /\ collected(dirPkg[dir[t]].decls, declIdx[t])
    /\ heap' = Append(heap, packageAnalysis(handlers[t], EmptyMap))
    /\ ret' = [ret EXCEPT ![t] = Len(heap) + 1]
    /\ via' = [via EXCEPT ![t] = "analysis"]
    /\ writer' = {}
    /\ pc' = [pc EXCEPT ![t] = "return"]
    /\ UNCHANGED <<analysisCache, readers, dir, missed, handlers, declIdx, calls, parses,
                   returned, dirPkg, fatal, fileOrder>>
    /\ UNCHANGED <<walkVars, schemaVars, docsVars, appVars>>

\* analyzeDirectory returns the packageAnalysis; loadPackageAnalysis stores
\* the pointer, returns it, and the deferred Unlock runs
Store(t) ==
    /\ ~fatal /\ pc[t] = "collect"
    /\ collected(dirPkg[dir[t]].decls, declIdx[t])
    /\ heap' = Append(heap, packageAnalysis(handlers[t], EmptyMap))
    /\ analysisCache' = Put(analysisCache, dir[t], Len(heap) + 1)
    /\ ret' = [ret EXCEPT ![t] = Len(heap) + 1]
    /\ via' = [via EXCEPT ![t] = "analysis"]
    /\ writer' = {}
    /\ pc' = [pc EXCEPT ![t] = "return"]
    /\ UNCHANGED <<readers, dir, missed, handlers, declIdx, calls, parses, returned,
                   dirPkg, fatal, fileOrder>>
    /\ UNCHANGED <<walkVars, schemaVars, docsVars, appVars>>

\* the caller receives the result
Return(t) ==
    /\ ~fatal /\ pc[t] = "return"
    /\ returned' = [returned EXCEPT ![dir[t]] = @ \cup {ret[t]}]
    /\ pc' = [pc EXCEPT ![t] = "idle"]
    /\ UNCHANGED <<analysisCache, heap, readers, writer, dir, ret, via, missed, handlers,
                   declIdx, calls, parses, dirPkg, fatal, fileOrder>>
    /\ UNCHANGED <<walkVars, schemaVars, docsVars, appVars>>

NextCache ==
    \/ \E t \in Threads, d \in Directories : Call(t, d)
    \/ \E t \in Threads : RLock(t)
    \/ \E t \in Threads : Probe(t)
    \/ \E t \in Threads : Lock(t)
    \/ \E t \in Threads : Recheck(t)
    \/ \E t \in Threads : ParseDir(t)
    \/ \E t \in Threads : CollectHandler(t)
    \/ \E t \in Threads : Store(t)
    \/ \E t \in Threads : Return(t)

SpecCache == InitCache /\ [][NextCache]_vars

-----------------------------------------------------------------------------
(* properties of the cache *)

\* the results lookups of d have produced: those handed to a caller and those
\* a goroutine is about to hand over
Observed(d) == returned[d] \cup {ret[t] : t \in {u \in Threads : pc[u] = "return" /\ dir[u] = d}}

\* C1: however many callers look up a directory while its entry is absent,
\* the directory is parsed and analysed once, and all of them get the same
\* result object, the cached one.
C1_AnalyzedOnce ==
    \A d \in Directories :
        /\ parses[d] <= 1
        /\ Observed(d) # {} => parses[d] = 1
        /\ Cardinality(Observed(d)) <= 1
        /\ \A p \in Observed(d) : Has(analysisCache, d) /\ analysisCache[d] = p

\* C1 witness: two callers both missed the same directory under the read lock
\* and both hold the same analysis object as their result.
C1_RacedCallers ==
    \E t, u \in Threads :
        /\ t # u /\ dir[t] = dir[u]
        /\ pc[t] = "return" /\ pc[u] = "return"
        /\ missed[t] /\ missed[u]
        /\ ret[t] # NilPtr /\ ret[t] = ret[u]

\* the object holds an entry for every function declaration of the package
Complete(obj, pkg) ==
    \A i \in 1..Len(pkg.decls) :
        /\ Has(obj.handlers, ToLower(pkg.decls[i].Name))
        /\ \E e \in 1..Len(obj.handlers[ToLower(pkg.decls[i].Name)]) :
              obj.handlers[ToLower(pkg.decls[i].Name)][e].funcName = pkg.decls[i].Name

\* C2: a directory has a cache entry only once its analysis is over: nobody
\* is still parsing or collecting it, the object the entry points to holds
\* every handler of the package, and what a lookup hands back is that entry.
C2_VisibleWhenComplete ==
    /\ \A d \in DOMAIN analysisCache :
          /\ \A t \in Threads : dir[t] = d => pc[t] \notin {"parse", "collect"}
          /\ analysisCache[d] # NilPtr =>
                /\ analysisCache[d] \in 1..Len(heap)
                /\ Complete(heap[analysisCache[d]], dirPkg[d])
    /\ \A t \in Threads :
          pc[t] = "return" => Has(analysisCache, dir[t]) /\ ret[t] = analysisCache[dir[t]]

\* C2 witness: a lookup found the finished object under the read lock while
\* another directory is still being analysed or was analysed before.
C2_CompletedVisible ==
    \E t \in Threads :
        /\ pc[t] = "return" /\ via[t] = "read lock"
        /\ ret[t] # NilPtr
        /\ Len(dirPkg[dir[t]].decls) > 1

\* C5: once the analysis of a directory has failed, the failure is what the
\* cache holds for it; every lookup of it returns nil and the directory is
\* not parsed again.
C5_FailureCached ==
    \A d \in Directories :
        ~dirPkg[d].parsed =>
            /\ parses[d] <= 1
            /\ Observed(d) \subseteq {NilPtr}
            /\ (parses[d] = 1 /\ \A t \in Threads : ~(dir[t] = d /\ pc[t] = "parse")) =>
                  Has(analysisCache, d) /\ analysisCache[d] = NilPtr

\* C5 witness: after the failed analysis was handed to its caller, a later
\* lookup of the directory returns nil from the first check.
C5_LaterLookupUnavailable ==
    \E t \in Threads :
        /\ pc[t] = "return" /\ via[t] = "read lock"
        /\ ~dirPkg[dir[t]].parsed
        /\ ret[t] = NilPtr
        /\ NilPtr \in returned[dir[t]]

\* what a pointer returned by loadPackageAnalysis points to
Deref(p) == IF p = NilPtr THEN Nil ELSE heap[p]

\* C15: when several handler records share a lowercased name, the lookup from
\* a live handler settles on the record of the handler's own declaration: the
\* record has the handler's file, its receiver type and a line at or before
\* the handler's, and it is the record of no other function; or on none.
C15_OwnRecord ==
    \A d \in DOMAIN analysisCache :
        \A i \in 1..Len(dirPkg[d].decls) :
            LET decl == dirPkg[d].decls[i]
                found == candidateOf(d, decl, Deref(analysisCache[d]))
            IN  \/ IsNil(found)
                \/ /\ found.filePath = decl.File
                   /\ found.receiverName = receiverTypeName(decl.Recv)
                   /\ found.startLine <= decl.Line
                   /\ found.funcName = decl.Name

\* what a pointer points to in a given heap
DerefIn(h, p) == IF p = NilPtr THEN Nil ELSE h[p]

\* the names a lookup by name can ask for in a directory
HandlerNames(d) == {dirPkg[d].decls[i].Name : i \in 1..Len(dirPkg[d].decls)}

\* C16: two successive lookups for the same handler name against the same
\* directory return structurally identical HandlerMetadata: what a lookup
\* that has returned was given equals what every lookup returning now or
\* before is given.
C16_LookupIdempotent ==
    [][\A d \in Directories :
          \A p \in returned[d], q \in returned'[d] :
              \A name \in HandlerNames(d) :
                  getHandlerMetadataByName(name, DerefIn(heap, p))
                      = getHandlerMetadataByName(name, DerefIn(heap', q))]_vars

\* C16 witness: a lookup of a directory whose analysis was already handed to
\* an earlier caller is about to return, and the name it asks for has
\* several records and non-empty metadata.
C16_SecondLookup ==
    \E t \in Threads :
        /\ pc[t] = "return" /\ via[t] = "read lock"
        /\ ret[t] # NilPtr /\ ret[t] \in returned[dir[t]]
        /\ Len(heap[ret[t]].handlers["ping"]) > 1
        /\ getHandlerMetadataByName("Ping", heap[ret[t]]).Responses # EmptyMap

\* the handlers maps a whole pass of collectHandlerMetadata over decls can
\* build from the i-th declaration on, given the map built so far
RECURSIVE collectFrom(_, _, _, _)
collectFrom(pkg, decls, i, acc) ==
    IF collected(decls, i) THEN {acc}
    ELSE UNION {collectFrom(pkg, decls, i + 1,
                            appendHandler(acc, ToLower(decls[i].Name),
                                          analyzedHandler(decls[i], a))) :
                  a \in {b \in analyzeHandlerDetails(decls[i].Body, pkg.structs, EmptyMap) :
                            ~IsDiverges(b)}}

\* the packageAnalysis values another run of analyzeDirectory can return for pkg
OtherRuns(pkg) ==
    UNION {{packageAnalysis(h, EmptyMap) :
              h \in collectFrom(pkg, declsInOrder(pkg, order), 1, EmptyMap)} :
             order \in Orders(Files(pkg))}

-----------------------------------------------------------------------------
(* the Gin analyzer and the standard-library analyzer on one analysisCache *)

\* a function declaration with the types of its parameters (fn.Type.Params.List)
FuncDeclParams(decl, params) ==
    [File |-> decl.File, Line |-> decl.Line, Recv |-> decl.Recv, Name |-> decl.Name,
     Body |-> decl.Body, Params |-> params]

GinParams == <<StarExpr(Sel("gin", "Context"))>>
StdlibParams == <<Sel("http", "ResponseWriter"), StarExpr(Sel("http", "Request"))>>

isStdlibHTTPHandler(decl) ==
    /\ Len(decl.Params) >= 2
    /\ \E i \in 1..Len(decl.Params) : Contains(exprToString(decl.Params[i]), "ResponseWriter")
    /\ \E i \in 1..Len(decl.Params) :
          /\ Contains(exprToString(decl.Params[i]), "Request")
          /\ Contains(exprToString(decl.Params[i]), "*")

\* the loop of collectStdlibHandlerMetadata from declaration i on: the
\* handlers maps it can end with
RECURSIVE collectStdlibFrom(_, _, _, _)
collectStdlibFrom(pkg, decls, i, acc) ==
    IF i > Len(decls) THEN {acc}
    ELSE IF ~isStdlibHTTPHandler(decls[i]) THEN collectStdlibFrom(pkg, decls, i + 1, acc)
    ELSE UNION {collectStdlibFrom(pkg, decls, i + 1,
                                  appendHandler(acc, ToLower(decls[i].Name),
                                                analyzedHandler(decls[i], a))) :
                  a \in {b \in analyzeStdlibHandlerDetails(decls[i].Body, pkg.structs, EmptyMap) :
                            ~IsDiverges(b)}}

\* the packageAnalysis values analyzeStdlibDirectory can return for pkg
analyzeStdlibDirectory(pkg) ==
    UNION {{packageAnalysis(h, EmptyMap) :
              h \in collectStdlibFrom(pkg, declsInOrder(pkg, order), 1, EmptyMap)} :
             order \in Orders(Files(pkg))}

\* the packageAnalysis values the directory analysis of an analyzer can return
analyzeDirectoryBy(analyzer, pkg) ==
    IF analyzer = "gin" THEN OtherRuns(pkg) ELSE analyzeStdlibDirectory(pkg)

\* /app/server/users.go
\*   12 func CreateUser(w http.ResponseWriter, r *http.Request) {
\*          var user User; json.NewDecoder(r.Body).Decode(&user)
\*          writeJSON(w, http.StatusCreated, user) }
\* /app/server/admin.go
\*    9 func ListUsers(c *gin.Context) { c.JSON(http.StatusOK, []User{}) }
PkgServer ==
    Package(TRUE, PkgStructs,
            <<FuncDeclParams(
                  FuncDecl("/app/server/users.go", 12, Nil, "CreateUser",
                           <<DeclStmt("VAR", <<ValueSpec(<<"user">>, Ident("User"), << >>)>>),
                             Chain("json", "NewDecoder", Sel("r", "Body"), "Decode",
                                   <<UnaryExpr("&", Ident("user"))>>),
                             Func("writeJSON", <<Ident("w"), Sel("http", "StatusCreated"),
                                                 Ident("user")>>)>>),
                  StdlibParams),
              FuncDeclParams(
                  FuncDecl("/app/server/admin.go", 9, Nil, "ListUsers",
                           <<Method("JSON", <<Sel("http", "StatusOK"),
                                              CompositeLit(ArrayType(Ident("User")), << >>)>>)>>),
                  GinParams)>>)

\* /app/api/login.go
\*    7 func Login(c *gin.Context) { c.BindXML(new(Login)); c.String(200, "in") }
\*   15 func (s *Store) Logout(c *gin.Context) { c.JSON(http.StatusAccepted, gin.H{"msg": "ok"}) }
PkgAPI ==
    Package(TRUE, PkgStructs,
            <<FuncDeclParams(
                  FuncDecl("/app/api/login.go", 7, Nil, "Login",
                           <<Method("BindXML", <<CallExpr(Ident("new"), <<Ident("Login")>>)>>),
                             Method("String", <<IntLit("200"), StringLit("\"in\"")>>)>>),
                  GinParams),
              FuncDeclParams(
                  FuncDecl("/app/api/login.go", 15, StarExpr(Ident("Store")), "Logout",
                           <<Method("JSON", <<Sel("http", "StatusAccepted"),
                                              CompositeLit(Sel("gin", "H"),
                                                           <<KeyValueExpr(StringLit("\"msg\""),
                                                                          StringLit("\"ok\""))>>)>>)>>),
                  GinParams)>>)

\* /app/web/health.go
\*    5 func Health(w http.ResponseWriter, r *http.Request) {
\*          json.NewEncoder(w).Encode(User{ID: 7, Name: "Ann"}) }
\*   11 func helper(code int) { }
PkgWeb ==
    Package(TRUE, PkgStructs,
            <<FuncDeclParams(
                  FuncDecl("/app/web/health.go", 5, Nil, "Health",
                           <<Chain("json", "NewEncoder", Ident("w"), "Encode",
                                   <<CompositeLit(Ident("User"),
                                                  <<KeyValueExpr(Ident("ID"), IntLit("7")),
                                                    KeyValueExpr(Ident("Name"),
                                                                 StringLit("\"Ann\""))>>)>>)>>),
                  StdlibParams),
              FuncDeclParams(FuncDecl("/app/web/health.go", 11, Nil, "helper", << >>),
                             <<Ident("int")>>)>>)

\* the directories the handlers of the two analyzers' routes are compiled from
Servers ==
    ("/app/server" :> PkgServer) @@ ("/app/api" :> PkgAPI) @@ ("/app/web" :> PkgWeb)
    @@ ("/app/broken" :> PkgBroken)

Analyzers == {"gin", "stdlib"}

\* the handlers of a package
Decls(pkg) == {pkg.decls[i] : i \in 1..Len(pkg.decls)}

\* the handler a lookup is made for when the directory does not parse
\* /app/broken/main.go
\*    3 func Index(w http.ResponseWriter, r *http.Request) {
Unparsed ==
    FuncDeclParams(FuncDecl("/app/broken/main.go", 3, Nil, "Index", << >>), StdlibParams)

Lookup(analyzer, d, decl, metadata) ==
    [analyzer |-> analyzer, dir |-> d, decl |-> decl, metadata |-> metadata]

InitAnalyzers ==
    /\ analysisCache = EmptyMap
    /\ heap = << >>
    /\ lookup = Nil
    /\ readers = {} /\ writer = {}
    /\ pc = << >> /\ dir = << >> /\ ret = << >> /\ via = << >> /\ missed = << >>
    /\ handlers = << >> /\ declIdx = << >> /\ fileOrder = << >>
    /\ calls = << >> /\ parses = << >>
    /\ returned = << >> /\ dirPkg = << >>
    /\ fatal = FALSE
    /\ IdleButLookup

\* one call of loadPackageAnalysis (analyzer gin) or loadStdlibPackageAnalysis
\* (analyzer stdlib) for directory d with no other call under way, followed
\* by the caller's search of the candidates of decl
LookupBy(analyzer, d, decl) ==
    /\ IF Has(analysisCache, d)
       THEN /\ lookup' = Lookup(analyzer, d, decl,
                                getHandlerMetadata(d, decl, Deref(analysisCache[d])))
            /\ UNCHANGED <<analysisCache, heap>>
       ELSE IF ~Servers[d].parsed
       THEN /\ analysisCache' = cacheFailure(analysisCache, d)
            /\ lookup' = Lookup(analyzer, d, decl, getHandlerMetadata(d, decl, Nil))
            /\ UNCHANGED heap
       ELSE \E pkgAnalysis \in analyzeDirectoryBy(analyzer, Servers[d]) :
                /\ heap' = Append(heap, pkgAnalysis)
                /\ analysisCache' = Put(analysisCache, d, Len(heap) + 1)
                /\ lookup' = Lookup(analyzer, d, decl, getHandlerMetadata(d, decl, pkgAnalysis))
    /\ UNCHANGED <<readers, writer, pc, dir, ret, via, missed, handlers, declIdx, fileOrder,
                   calls, parses, returned, dirPkg, fatal>>
    /\ UNCHANGED varsButLookup

\* getHandlerMetadata(handler) of the Gin analyzer
GetHandlerMetadata ==
    \E d \in DOMAIN Servers :
        \E decl \in (IF Servers[d].parsed THEN Decls(Servers[d]) ELSE {Unparsed}) :
            ~fatal /\ LookupBy("gin", d, decl)

\* getStdlibHandlerMetadata(handler)
GetStdlibHandlerMetadata ==
    \E d \in DOMAIN Servers :
        \E decl \in (IF Servers[d].parsed THEN Decls(Servers[d]) ELSE {Unparsed}) :
            ~fatal /\ LookupBy("stdlib", d, decl)

NextAnalyzers == GetHandlerMetadata \/ GetStdlibHandlerMetadata

SpecAnalyzers == InitAnalyzers /\ [][NextAnalyzers]_vars

\* the metadata an analyzer's lookup returns for decl when no lookup was made
\* for the directory before it
OwnMetadata(analyzer, d, decl) ==
    IF ~Servers[d].parsed THEN {getHandlerMetadata(d, decl, Nil)}
    ELSE {getHandlerMetadata(d, decl, pkgAnalysis) :
            pkgAnalysis \in analyzeDirectoryBy(analyzer, Servers[d])}

\* C22: what the lookup of one analyzer returns for a handler does not depend
\* on an earlier lookup by the other analyzer for the same directory: it is
\* the metadata the analyzer returns when it is the first to look the
\* directory up
C22_UnaffectedByOtherAnalyzer ==
    lookup # Nil =>
        lookup.metadata \in OwnMetadata(lookup.analyzer, lookup.dir, lookup.decl)

-----------------------------------------------------------------------------
(* core: the result type of a call *)

\* the most function declarations of a package
MaxDecls == 3

\* a function declaration with the types of its results (fn.Type.Results.List)
FuncDeclResults(recv, name, results) == [Recv |-> recv, Name |-> name, Results |-> results]

\* functions[key] = append(functions[key], signature)
appendSignature(m, key, signature) ==
    Put(m, key, IF Has(m, key) THEN Append(m[key], signature) ELSE <<signature>>)

\* the keys collectFunctionSignatures files a declaration under, one after
\* the other
RECURSIVE fileUnder(_, _, _, _)
fileUnder(m, keys, i, signature) ==
    IF i > Len(keys) THEN m
    ELSE fileUnder(appendSignature(m, keys[i], signature), keys, i + 1, signature)

signatureKeys(receiver, funcName) ==
    <<funcName>>
    \o (IF receiver # "" THEN <<receiver \o "." \o funcName>> ELSE << >>)
    \o (IF receiver # "" /\ TrimPrefix(receiver, "*") # receiver
        THEN <<TrimPrefix(receiver, "*") \o "." \o funcName>> ELSE << >>)

\* the loop of collectFunctionSignatures over the declarations, from the
\* i-th on
RECURSIVE collectSignaturesFrom(_, _, _)
collectSignaturesFrom(decls, i, functions) ==
    IF i > Len(decls) THEN functions
    ELSE collectSignaturesFrom(
             decls, i + 1,
             fileUnder(functions,
                       signatureKeys(receiverTypeName(decls[i].Recv), decls[i].Name), 1,
                       Signature(receiverTypeName(decls[i].Recv), decls[i].Results)))

collectFunctionSignatures(decls) == collectSignaturesFrom(decls, 1, EmptyMap)

\* func Find() []Item
\* func (s *Store) Find() User
\* func (c Cache) Find() Order
\* func (c Cache) Close() error
Declared ==
    {FuncDeclResults(Nil, "Find", <<ArrayType(Ident("Item"))>>),
     FuncDeclResults(StarExpr(Ident("Store")), "Find", <<Ident("User")>>),
     FuncDeclResults(Ident("Cache"), "Find", <<Ident("Order")>>),
     FuncDeclResults(Ident("Cache"), "Close", <<Ident("error")>>)}

\* the declarations of a package, in the order of the file
DeclLists ==
    {q \in SeqsUpTo(Declared, MaxDecls) : \A i, j \in 1..Len(q) : i # j => q[i] # q[j]}

\* the types the receiver variable x of the call x.Find() or x.Close() is bound to
ReceiverTypes ==
    {Ident("Store"), StarExpr(Ident("Store")), Ident("Cache"), StarExpr(Ident("Cache")),
     Ident("Index")}

InitInfer ==
    /\ \E decls \in DeclLists, t \in ReceiverTypes, name \in {"Find", "Close"} :
          sbArgs = [decls |-> decls, receiver |-> t, name |-> name]
    /\ sbResult = NotCalled
    /\ fatal = FALSE
    /\ CacheIdle
    /\ WalkIdle
    /\ DocsIdle
    /\ AppIdle

\* inferTypeFromExpr on the call x.name() with x bound to the receiver type
CallInferTypeFromExpr ==
    /\ sbResult = NotCalled
    /\ sbResult' =
          [fn |-> "inferTypeFromExpr",
           value |-> inferTypeFromExpr(
                         CallExpr(Sel("x", sbArgs.name), << >>),
                         Context(EmptyMap, collectFunctionSignatures(sbArgs.decls),
                                 [x |-> sbArgs.receiver], [x |-> Nil]))]
    /\ UNCHANGED <<sbArgs, cacheVars, walkVars, docsVars, appVars>>

NextInfer == CallInferTypeFromExpr

SpecInfer == InitInfer /\ [][NextInfer]_vars

\* the declaration is a method called name on the type T or *T of the receiver
IsMethodOf(decl, receiver, name) ==
    /\ decl.Name = name
    /\ ~IsNil(decl.Recv)
    /\ TrimPrefix(exprToString(decl.Recv), "*") = TrimPrefix(exprToString(receiver), "*")

\* C26: a method call on a receiver whose type was resolved to T is given the
\* result type of a method with that name declared on T or on *T, never the
\* result type of a function of that name or of a method of that name
\* declared on another type
C26_ResultOfOwnMethod ==
    (sbResult # NotCalled /\ sbResult.fn = "inferTypeFromExpr" /\ ~IsNil(sbResult.value))
        => \E i \in 1..Len(sbArgs.decls) :
              /\ IsMethodOf(sbArgs.decls[i], sbArgs.receiver, sbArgs.name)
              /\ sbResult.value = sbArgs.decls[i].Results[1]

-----------------------------------------------------------------------------
(* core: route paths as OpenAPI path templates *)

\* the most segments a route path has
MaxSegments == 2

\* strings.Split(s, sep) for a one-character sep
RECURSIVE Split(_, _)
Split(s, sep) ==
    LET first == SplitFirst(s, sep)
    IN  IF Len(first) = Len(s) THEN <<s>>
        ELSE <<first>> \o Split(SubSeq(s, Len(first) + 2, Len(s)), sep)

\* strings.Join(parts, sep)
RECURSIVE Join(_, _)
Join(parts, sep) ==
    IF parts = << >> THEN ""
    ELSE IF Len(parts) = 1 THEN parts[1]
    ELSE parts[1] \o sep \o Join(Tail(parts), sep)

\* strings.ReplaceAll(s, old, new), old not empty
RECURSIVE ReplaceAll(_, _, _)
ReplaceAll(s, old, new) ==
    IF s = "" THEN ""
    ELSE IF HasPrefix(s, old) THEN new \o ReplaceAll(SubSeq(s, Len(old) + 1, Len(s)), old, new)
    ELSE CharAt(s, 1) \o ReplaceAll(Tail(s), old, new)

\* the longest prefix of s made of characters outside stop
RECURSIVE RunOutside(_, _)
RunOutside(s, stop) ==
    IF s = "" \/ CharAt(s, 1) \in stop THEN ""
    ELSE CharAt(s, 1) \o RunOutside(Tail(s), stop)

\* the match of \{([^{}:]+):[^{}]+\} at the start of s: both runs are
\* greedy and end at the first excluded character, which has to be the
\* colon after the first run and the closing brace after the second
muxParamMatch(s) ==
    LET name == RunOutside(Tail(s), {"{", "}", ":"})
        afterName == SubSeq(s, Len(name) + 2, Len(s))
        pattern == RunOutside(Tail(afterName), {"{", "}"})
        afterPattern == SubSeq(afterName, Len(pattern) + 2, Len(afterName))
    IN  IF HasPrefix(s, "{") /\ name # "" /\ HasPrefix(afterName, ":")
           /\ pattern # "" /\ HasPrefix(afterPattern, "}")
        THEN [ok |-> TRUE, name |-> name, rest |-> Tail(afterPattern)]
        ELSE [ok |-> FALSE, name |-> "", rest |-> s]

\* muxParamRegex.ReplaceAllString(s, `{$1}`): leftmost matches, not overlapping
RECURSIVE muxParamReplaceAll(_)
muxParamReplaceAll(s) ==
    IF s = "" THEN ""
    ELSE IF muxParamMatch(s).ok
    THEN "{" \o muxParamMatch(s).name \o "}" \o muxParamReplaceAll(muxParamMatch(s).rest)
    ELSE CharAt(s, 1) \o muxParamReplaceAll(Tail(s))

\* the loop over the parts: a part that starts with a colon becomes {param}
colonParts(parts) ==
    [i \in 1..Len(parts) |->
        IF HasPrefix(parts[i], ":") THEN "{" \o TrimPrefix(parts[i], ":") \o "}" ELSE parts[i]]

convertPathToOpenAPI(path) ==
    LET rooted == IF ~HasPrefix(path, "/") THEN "/" \o path ELSE path
        joined == Join(colonParts(Split(rooted, "/")), "/")
        braced == ReplaceAll(ReplaceAll(joined, "<", "{"), ">", "}")
        named == muxParamReplaceAll(braced)
        result == ReplaceAll(named, "{}/", "/")
    IN  IF HasPrefix(result, "{}") THEN TrimPrefix(result, "{}") ELSE result

\* the segments route paths are made of: the text a router is given and the
\* same segment as an OpenAPI path template
Segment(text, template) == [text |-> text, template |-> template]

RouteSegments ==
    { Segment("api", "api"), Segment("v1", "v1"),
      Segment(":resource", "{resource}"),
      Segment("<tenant>", "{tenant}"),
      Segment("{slug:[a-z-]+}", "{slug}"),
      Segment("{id:[0-9]{2}}", "{id}"),
      Segment("{id}", "{id}") }

Texts(segments) == [i \in 1..Len(segments) |-> segments[i].text]
Templates(segments) == [i \in 1..Len(segments) |-> segments[i].template]

\* a route is registered with or without its leading slash
InitPath ==
    /\ \E segments \in SeqsUpTo(RouteSegments, MaxSegments), rooted \in BOOLEAN :
          sbArgs = [path |-> (IF rooted THEN "/" ELSE "") \o Join(Texts(segments), "/"),
                    segments |-> segments]
    /\ sbResult = NotCalled
    /\ fatal = FALSE
    /\ CacheIdle
    /\ WalkIdle
    /\ DocsIdle
    /\ AppIdle

\* pathKey := convertPathToOpenAPI(endpoint.Path)
CallConvertPathToOpenAPI ==
    /\ sbResult = NotCalled
    /\ sbResult' = [fn |-> "convertPathToOpenAPI", value |-> convertPathToOpenAPI(sbArgs.path)]
    /\ UNCHANGED <<sbArgs, cacheVars, walkVars, docsVars, appVars>>

NextPath == CallConvertPathToOpenAPI

SpecPath == InitPath /\ [][NextPath]_vars

\* the call of convertPathToOpenAPI has returned
PathConverted == sbResult # NotCalled /\ sbResult.fn = "convertPathToOpenAPI"

\* C17: convertPathToOpenAPI maps every route path to a path that starts with
\* "/" and in which every placeholder written as :name, <name> or
\* {name:pattern} appears as {name}, all other segments unchanged
C17_PathTemplate ==
    (PathConverted /\ "segments" \in DOMAIN sbArgs)
        => /\ HasPrefix(sbResult.value, "/")
           /\ Split(TrimPrefix(sbResult.value, "/"), "/")
                 = (IF sbArgs.segments = << >> THEN <<"">> ELSE Templates(sbArgs.segments))

-----------------------------------------------------------------------------
(* core: the docs endpoint, APIDocs.ServeHTTP behind AuthMiddleware *)

\* the last minute of the wall clock
MaxClock == 2
\* the most session ids the random source gives out
MaxSessions == 1

\* config.DocsPath
DocsPath == "/docs"

Delete(m, k) == [x \in (DOMAIN m) \ {k} |-> m[x]]

\* AuthConfig as the README sets it up, with short durations (minutes)
AuthConfig(enabled, type, ipBanEnabled, ipBanMaxAttempts) ==
    [Enabled |-> enabled, Type |-> type, Username |-> "admin", Password |-> "secret",
     APIKey |-> "key-1", APIKeyHeader |-> "",
     SessionExpire |-> 1, IPBanEnabled |-> ipBanEnabled,
     IPBanMaxAttempts |-> ipBanMaxAttempts, IPBanDuration |-> 1,
     AdminWhitelistIPs |-> {"127.0.0.1"}]

AuthConfigs ==
    {AuthConfig(FALSE, "basic", TRUE, 2)}
    \cup {AuthConfig(TRUE, type, TRUE, 2) : type \in {"basic", "api_key", "bearer", "digest"}}
    \cup {AuthConfig(TRUE, "session", TRUE, max) : max \in {1, 2}}
    \cup {AuthConfig(TRUE, "session", FALSE, 2)}

\* *http.Request: the peer address, URL.Path, Method, FormValue("password"),
\* the bytedocs_session cookie and the two credential headers
Request(remoteAddr, path, method, password, cookie, authorization, apiKey) ==
    [RemoteAddr |-> remoteAddr, Path |-> path, Method |-> method, password |-> password,
     cookie |-> cookie, Authorization |-> authorization, XAPIKey |-> apiKey]

RemoteAddrs == {"127.0.0.1:4100", "203.0.113.9:4200"}
DocsPaths == {"/docs", "/docs/api-data.json", "/docs/openapi.json", "/docs/openapi.jsonp"}

\* the requests clients send to a deployment configured with config: a browser
\* with its form and cookie under session authentication, an API client with
\* its headers under the other types
Requests(config, cookies) ==
    IF config.Type = "session"
    THEN {Request(addr, path, form[1], form[2], cookie, "", "") :
            addr \in RemoteAddrs, path \in DocsPaths,
            form \in {<<"GET", "">>, <<"POST", "secret">>, <<"POST", "guess">>},
            cookie \in {""} \cup cookies}
    ELSE {Request(addr, path, "GET", "", "", header[1], header[2]) :
            addr \in RemoteAddrs, path \in DocsPaths,
            header \in {<<"", "">>, <<"Basic YWRtaW46c2VjcmV0", "">>,
                        <<"Basic YWRtaW46Z3Vlc3M=", "">>, <<"Basic ???", "">>,
                        <<"Bearer key-1", "">>,
                        <<"", "key-1">>, <<"", "nope">>}}

\* what the handler wrote: the status, the page or document, and the
\* bytedocs_session cookie it set
Written(status, body) == [status |-> status, body |-> body, cookie |-> ""]

\* an operation on the middleware: the middleware after it and its result
Out(m, value) == [m |-> m, value |-> value]

serveOpenAPI(r) ==
    IF r.Method # "GET" THEN Written(405, "Method not allowed") ELSE Written(200, "openapi.json")

serveOpenAPIYAML(r) ==
    IF r.Method # "GET" THEN Written(405, "Method not allowed") ELSE Written(200, "openapi.yaml")

serveDocs(r) ==
    LET trimmed == TrimPrefix(r.Path, DocsPath)
        path == IF trimmed = "" THEN "/"
                ELSE IF ~HasPrefix(trimmed, "/") THEN "/" \o trimmed ELSE trimmed
    IN  IF path = "" \/ path = "/" THEN Written(200, "ui")
        ELSE IF path = "/api-data.json" THEN Written(200, "api-data.json")
        ELSE IF path = "/chat" THEN Written(200, "chat")
        ELSE IF path = "/openapi.json" THEN serveOpenAPI(r)
        ELSE IF path = "/openapi.yaml" \/ path = "/openapi.yml" THEN serveOpenAPIYAML(r)
        ELSE IF HasPrefix(path, "/assets/") THEN Written(404, "404 page not found")
        ELSE Written(200, "ui")

\* base64.StdEncoding.DecodeString on the payloads clients send; any other
\* payload is not base64
DecodeString(payload) ==
    IF payload = "YWRtaW46c2VjcmV0" THEN [ok |-> TRUE, value |-> "admin:secret"]
    ELSE IF payload = "YWRtaW46Z3Vlc3M=" THEN [ok |-> TRUE, value |-> "admin:guess"]
    ELSE [ok |-> FALSE, value |-> ""]

\* the authenticate functions return whether err == nil
authenticateBasic(r, config) ==
    LET auth == r.Authorization
        payload == DecodeString(SubSeq(auth, 7, Len(auth)))
        username == SplitFirst(payload.value, ":")
        password == SubSeq(payload.value, Len(username) + 2, Len(payload.value))
    IN  /\ auth # ""
        /\ HasPrefix(auth, "Basic ")
        /\ payload.ok
        /\ Contains(payload.value, ":")
        /\ username = config.Username
        /\ password = config.Password

authenticateAPIKey(r, config) ==
    \* the header named config.APIKeyHeader, X-API-Key when that is empty
    /\ r.XAPIKey # ""
    /\ r.XAPIKey = config.APIKey

authenticateBearer(r, config) ==
    LET auth == r.Authorization
        token == SubSeq(auth, 8, Len(auth))
    IN  /\ auth # ""
        /\ HasPrefix(auth, "Bearer ")
        /\ token # ""
        /\ token = config.APIKey

authenticateRequest(r, config) ==
    IF config.Type = "basic" THEN authenticateBasic(r, config)
    ELSE IF config.Type = "api_key" THEN authenticateAPIKey(r, config)
    ELSE IF config.Type = "bearer" THEN authenticateBearer(r, config)
    ELSE FALSE

handleAuthError == Written(401, "Authentication required")

\* time.Now().Unix() at minute t
Unix(t) == t * 60

\* net.SplitHostPort(r.RemoteAddr) of a request without proxy headers
getClientIP(r) == SplitFirst(r.RemoteAddr, ":")
ClientIPs == {SplitFirst(addr, ":") : addr \in RemoteAddrs}

\* the middleware NewSessionAuthMiddleware returns: no session, ban or attempt
NewSessionAuthMiddleware(config) ==
    [config |-> config, sessions |-> EmptyMap, ipBans |-> EmptyMap, attempts |-> EmptyMap]

renderLogin == Written(200, "login")
renderBanned == Written(403, "banned")
renderConfigError == Written(500, "config-error")

isIPBanned(m, ip, t) ==
    IF ~m.config.IPBanEnabled THEN Out(m, FALSE)
    ELSE IF ip \in m.config.AdminWhitelistIPs THEN Out(m, FALSE)
    ELSE IF ~Has(m.ipBans, ip) THEN Out(m, FALSE)
    ELSE IF Unix(t) > m.ipBans[ip]
    THEN Out([m EXCEPT !.ipBans = Delete(@, ip), !.attempts = Delete(@, ip)], FALSE)
    ELSE Out(m, TRUE)

isAuthenticated(m, sessionID, t) ==
    IF sessionID = "" THEN Out(m, FALSE)
    ELSE IF ~Has(m.sessions, sessionID) THEN Out(m, FALSE)
    ELSE IF Unix(t) > m.sessions[sessionID] + m.config.SessionExpire * 60
    THEN Out([m EXCEPT !.sessions = Delete(@, sessionID)], FALSE)
    ELSE Out(m, TRUE)

\* generated is what generateSessionID returns if it is called
handleLogin(m, r, ip, sessionID, t, generated) ==
    IF r.password = m.config.Password
    THEN LET id == IF sessionID = "" THEN generated ELSE sessionID
         IN  Out([m EXCEPT !.attempts = Delete(@, ip), !.sessions = Put(@, id, Unix(t))],
                 [serveDocs(r) EXCEPT !.cookie = id])
    ELSE LET attempts == (IF Has(m.attempts, ip) THEN m.attempts[ip] ELSE 0) + 1
             counted == [m EXCEPT !.attempts = Put(@, ip, attempts)]
         IN  IF attempts >= m.config.IPBanMaxAttempts /\ m.config.IPBanEnabled
             THEN IF ip \notin m.config.AdminWhitelistIPs
                  THEN Out([counted EXCEPT !.ipBans = Put(@, ip, Unix(t) + m.config.IPBanDuration * 60),
                                           !.attempts = Delete(@, ip)],
                           renderBanned)
                  ELSE Out([counted EXCEPT !.attempts = Delete(@, ip)], renderLogin)
             ELSE Out(counted, renderLogin)

\* SessionAuthMiddleware.ServeHTTP with next = serveDocs
SessionServeHTTP(m, r, t, generated) ==
    IF ~m.config.Enabled THEN Out(m, serveDocs(r))
    ELSE IF m.config.Password = "" THEN Out(m, renderConfigError)
    ELSE LET ip == getClientIP(r)
             sessionID == r.cookie
             banned == isIPBanned(m, ip, t)
             authed == isAuthenticated(banned.m, sessionID, t)
         IN  IF banned.value THEN Out(banned.m, renderBanned)
             ELSE IF authed.value THEN Out(authed.m, serveDocs(r))
             ELSE IF r.Method = "POST" /\ r.password # ""
             THEN handleLogin(authed.m, r, ip, sessionID, t, generated)
             ELSE Out(authed.m, renderLogin)

\* the handler AuthMiddleware(config) wraps around serveDocs: under session
\* authentication each request gets a middleware of its own; loaded says
\* whether loadTemplates could read the pages
AuthMiddleware(config, r, t, generated, loaded) ==
    IF config = Nil \/ ~config.Enabled THEN Out(Nil, serveDocs(r))
    ELSE IF config.Type = "session"
    THEN IF ~loaded THEN Out(Nil, Written(500, "Failed to initialize session auth"))
         ELSE SessionServeHTTP(NewSessionAuthMiddleware(config), r, t, generated)
    ELSE IF ~authenticateRequest(r, config) THEN Out(Nil, handleAuthError)
    ELSE Out(Nil, serveDocs(r))

\* the request is for one of the OpenAPI documents
IsOpenAPIPath(r) ==
    LET path == TrimPrefix(r.Path, DocsPath)
    IN  HasPrefix(path, "/openapi.json") \/ HasPrefix(path, "/openapi.yaml")
        \/ HasPrefix(path, "/openapi.yml")

APIDocsServeHTTP(config, r, t, generated, loaded) ==
    IF IsOpenAPIPath(r) THEN Out(Nil, serveDocs(r))
    ELSE IF config # Nil /\ config.Enabled THEN AuthMiddleware(config, r, t, generated, loaded)
    ELSE Out(Nil, serveDocs(r))

\* ---- what the clients have done so far ----

SessionID(i) == IF i = 1 THEN "sid-1" ELSE IF i = 2 THEN "sid-2" ELSE "sid-3"
\* the ids the random source has not given out yet
UnusedIDs == {i \in 1..MaxSessions : SessionID(i) \notin DOMAIN issued}

\* ip used up its attempts: less than IPBanDuration minutes ago, or more
BanOf(ip) ==
    IF ~Has(banStart, ip) THEN "none"
    ELSE IF now < banStart[ip] + authConfig.IPBanDuration THEN "in force"
    ELSE IF now > banStart[ip] + authConfig.IPBanDuration THEN "lapsed"
    ELSE "lapsing"

\* the cookie was issued by a login: less than SessionExpire minutes ago, or more
SessionOf(cookie) ==
    IF ~Has(issued, cookie) THEN "none"
    ELSE IF now < issued[cookie] + authConfig.SessionExpire THEN "valid"
    ELSE IF now > issued[cookie] + authConfig.SessionExpire THEN "expired"
    ELSE "expiring"

\* r carries what the configured authentication asks for
Passed(r) ==
    IF authConfig.Type = "session"
    THEN \/ SessionOf(r.cookie) \in {"valid", "expiring"}
         \/ r.Method = "POST" /\ r.password = authConfig.Password
    ELSE authenticateRequest(r, authConfig)

\* ip is one whose wrong passwords count towards a ban
Bannable(ip) ==
    /\ authConfig.Enabled /\ authConfig.Type = "session" /\ authConfig.IPBanEnabled
    /\ ip \notin authConfig.AdminWhitelistIPs

InitDocs ==
    /\ authConfig \in AuthConfigs
    /\ templatesOnDisk \in (IF authConfig.Type = "session" THEN BOOLEAN ELSE {FALSE})
    /\ now = 0
    /\ sessionAuth = Nil
    /\ issued = EmptyMap
    /\ wrong = [ip \in ClientIPs |-> 0]
    /\ banStart = EmptyMap
    /\ exchange = Nil
    /\ fatal = FALSE
    /\ CacheIdle
    /\ WalkIdle
    /\ SchemaIdle
    /\ AppIdle

\* one request to the docs endpoint, from arrival to the written response
ServeHTTP ==
    /\ authConfig # Nil
    /\ \E r \in Requests(authConfig, DOMAIN issued) :
        LET generated == IF UnusedIDs = {} THEN "" ELSE SessionID(Least(UnusedIDs))
            out == APIDocsServeHTTP(authConfig, r, now, generated, templatesOnDisk)
            ip == getClientIP(r)
            loggedIn == out.value.cookie # ""
            wrongPassword == /\ ~IsOpenAPIPath(r) /\ r.Method = "POST"
                             /\ r.password \notin {"", authConfig.Password}
                             /\ SessionOf(r.cookie) \in {"none", "expired"}
            strikes == wrong[ip] + 1
        IN  /\ (r.Method = "POST" /\ r.password = authConfig.Password /\ r.cookie = "")
                    => UnusedIDs # {}
            /\ sessionAuth' = IF out.m = Nil THEN sessionAuth ELSE out.m
            /\ exchange' = [request |-> r, response |-> out.value,
                            passed |-> Passed(r), ban |-> BanOf(ip),
                            session |-> SessionOf(r.cookie)]
            /\ issued' = IF loggedIn THEN Put(issued, out.value.cookie, now) ELSE issued
            /\ IF loggedIn
               THEN /\ wrong' = [wrong EXCEPT ![ip] = 0]
                    /\ UNCHANGED banStart
               ELSE IF wrongPassword /\ Bannable(ip) /\ BanOf(ip) \in {"none", "lapsed"}
               THEN IF strikes >= authConfig.IPBanMaxAttempts
                    THEN /\ banStart' = Put(banStart, ip, now)
                         /\ wrong' = [wrong EXCEPT ![ip] = 0]
                    ELSE /\ wrong' = [wrong EXCEPT ![ip] = strikes]
                         /\ UNCHANGED banStart
               ELSE UNCHANGED <<wrong, banStart>>
    /\ UNCHANGED <<authConfig, templatesOnDisk, now>>
    /\ UNCHANGED <<cacheVars, walkVars, schemaVars, appVars>>

\* a minute passes
Tick ==
    /\ authConfig # Nil
    /\ now < MaxClock
    /\ now' = now + 1
    /\ UNCHANGED <<authConfig, templatesOnDisk, sessionAuth, issued, wrong, banStart, exchange>>
    /\ UNCHANGED <<cacheVars, walkVars, schemaVars, appVars>>

NextDocs == ServeHTTP \/ Tick

SpecDocs == InitDocs /\ [][NextDocs]_vars

\* ---- properties of the docs endpoint ----

\* the UI page, the API data and the OpenAPI documents
DocumentationContent == {"ui", "api-data.json", "openapi.json", "openapi.yaml"}

Answered == exchange # Nil

\* C18: when AuthConfig.Enabled is true, no request under the docs path is
\* answered with documentation content (the UI page, the API data or the
\* OpenAPI document) unless that request has passed the configured
\* authentication check
C18_NoContentWithoutAuth ==
    (Answered /\ authConfig.Enabled /\ exchange.response.body \in DocumentationContent)
        => exchange.passed

\* C19: with session authentication and IP banning enabled, once a
\* non-whitelisted client IP has submitted IPBanMaxAttempts wrong passwords
\* with no successful login in between, every request from that IP that
\* reaches the session check (requests for the OpenAPI documents skip every
\* check, see C18) is answered with the 403 banned page until IPBanDuration
\* minutes have passed
C19_BannedUntilExpiry ==
    (Answered /\ templatesOnDisk /\ Bannable(getClientIP(exchange.request))
     /\ exchange.ban = "in force" /\ ~IsOpenAPIPath(exchange.request))
        => exchange.response.status = 403 /\ exchange.response.body = "banned"

\* C20: after a successful password login, every later request that carries
\* the issued bytedocs_session cookie is served the documentation without a
\* new login until SessionExpire minutes after the login, and is asked to log
\* in again after that
C20_SessionUntilExpiry ==
    (Answered /\ templatesOnDisk /\ authConfig.Enabled /\ authConfig.Type = "session"
     /\ exchange.ban \in {"none", "lapsed"} /\ exchange.request.password = "")
        => /\ exchange.session = "valid"
                => exchange.response.body \in DocumentationContent
           /\ (exchange.session = "expired" /\ ~IsOpenAPIPath(exchange.request))
                => exchange.response.body = "login"

-----------------------------------------------------------------------------
(* core: the visited map of one schema construction *)

\* the most fields of a struct type in the catalog
MaxMembers == 2

Member(name, type) == Field(<<name>>, type, NoTag, "")

RECURSIVE Members(_, _)
Members(types, i) ==
    IF i > Len(types) THEN << >>
    ELSE <<Member("F" \o Itoa(i), types[i])>> \o Members(types, i + 1)

\* type Address struct { Street string }
AddressStruct == StructType(<<Member("Street", Ident("string"))>>)

\* the field types of type Node struct and of type Pair struct
NodeTypes == {Ident("string"), Ident("Address"), StarExpr(Ident("Node")),
              ArrayType(Ident("Node"))}
PairTypes == {Ident("Address"), Ident("Node"), MapType(Ident("string"), Ident("Address"))}

\* ctx.structs of the packages under analysis
Catalogs ==
    {[Address |-> AddressStruct,
      Node |-> StructType(Members(n, 1)),
      Pair |-> StructType(Members(q, 1))] :
        n \in SeqsUpTo(NodeTypes, MaxMembers), q \in SeqsUpTo(PairTypes, MaxMembers)}

\* the expressions a response call or a binding call hands to buildSchemaFromExpr
Payloads ==
    {Ident("Pair"), Ident("Node"), ArrayType(Ident("Pair")),
     CompositeLit(Ident("Node"), << >>)}

\* one activation of buildStructSchema: the struct type whose fields it
\* ranges over, the name it was reached by, whether the caller marked that
\* name, and the next field of the range
Frame(name, marked, structType, idx) ==
    [name |-> name, marked |-> marked, fields |-> structType.Fields, idx |-> idx]

\* the names whose expansion is in progress
Open == {frames[i].name : i \in 1..Len(frames)}

\* one occurrence of a struct type name: whether it got the schema
\* {type: "object"} without properties, and the expansions it was inside
Occurrence(name, bare) == [name |-> name, bare |-> bare, inside |-> Open]

\* visited[e.Name]
IsVisited(name) == Has(visitedNames, name) /\ visitedNames[name]

\* the statement after the call of buildStructSchema, if it left the mark
leaveMarked(m, name) == m

\* visited[e.Name] = false
unmark(m, name) == Put(m, name, FALSE)

InitVisited ==
    /\ catalog \in Catalogs
    /\ cur \in Payloads
    /\ visitedNames = EmptyMap
    /\ frames = << >>
    /\ expansions = << >>
    /\ fatal = FALSE
    /\ IdleButBuilder

\* case *ast.StarExpr, *ast.ArrayType, *ast.MapType: the call on the element
Unwrap ==
    /\ ~IsNil(cur)
    /\ cur.k \in {"StarExpr", "ArrayType", "MapType"}
    /\ cur' = CASE cur.k = "StarExpr" -> cur.X
                [] cur.k = "ArrayType" -> cur.Elt
                [] cur.k = "MapType" -> cur.Value
    /\ UNCHANGED <<catalog, visitedNames, frames, expansions, fatal>>
    /\ UNCHANGED varsButBuilder

\* case *ast.Ident that names no struct type: the call returns
Leaf ==
    /\ ~IsNil(cur)
    /\ cur.k = "Ident"
    /\ ~IsNil(primitiveSchemaForIdent(cur.Name).schema) \/ ~Has(catalog, cur.Name)
    /\ cur' = Nil
    /\ UNCHANGED <<catalog, visitedNames, frames, expansions, fatal>>
    /\ UNCHANGED varsButBuilder

\* case *ast.Ident, visited[e.Name] is set: the call returns {type: "object"}
Revisit ==
    /\ ~IsNil(cur)
    /\ cur.k = "Ident"
    /\ IsNil(primitiveSchemaForIdent(cur.Name).schema) /\ Has(catalog, cur.Name)
    /\ IsVisited(cur.Name)
    /\ expansions' = Append(expansions, Occurrence(cur.Name, TRUE))
    /\ cur' = Nil
    /\ UNCHANGED <<catalog, visitedNames, frames, fatal>>
    /\ UNCHANGED varsButBuilder

\* case *ast.Ident: visited[e.Name] = true and the call of buildStructSchema
Mark ==
    /\ ~IsNil(cur)
    /\ cur.k = "Ident"
    /\ IsNil(primitiveSchemaForIdent(cur.Name).schema) /\ Has(catalog, cur.Name)
    /\ ~IsVisited(cur.Name)
    /\ visitedNames' = Put(visitedNames, cur.Name, TRUE)
    /\ frames' = Append(frames, Frame(cur.Name, TRUE, catalog[cur.Name], 1))
    /\ expansions' = Append(expansions, Occurrence(cur.Name, FALSE))
    /\ cur' = Nil
    /\ UNCHANGED <<catalog, fatal>>
    /\ UNCHANGED varsButBuilder

\* buildSchemaFromCompositeLiteral, case *ast.Ident: the call of
\* buildStructSchema on the literal's struct type
Literal ==
    /\ ~IsNil(cur)
    /\ cur.k = "CompositeLit"
    /\ cur.Type.k = "Ident" /\ Has(catalog, cur.Type.Name)
    /\ frames' = Append(frames, Frame(cur.Type.Name, FALSE, catalog[cur.Type.Name], 1))
    /\ expansions' = Append(expansions, Occurrence(cur.Type.Name, FALSE))
    /\ cur' = Nil
    /\ UNCHANGED <<catalog, visitedNames, fatal>>
    /\ UNCHANGED varsButBuilder

\* buildStructSchema: the range over the fields calls buildSchemaFromExpr on
\* the type of the next field
NextField ==
    /\ IsNil(cur)
    /\ frames # << >>
    /\ frames[Len(frames)].idx <= Len(frames[Len(frames)].fields)
    /\ cur' = frames[Len(frames)].fields[frames[Len(frames)].idx].Type
    /\ frames' = [frames EXCEPT ![Len(frames)].idx = @ + 1]
    /\ UNCHANGED <<catalog, visitedNames, expansions, fatal>>
    /\ UNCHANGED varsButBuilder

\* buildStructSchema returns; the caller that marked the name runs the
\* statement after the call
ReturnFromStruct ==
    /\ IsNil(cur)
    /\ frames # << >>
    /\ frames[Len(frames)].idx > Len(frames[Len(frames)].fields)
    /\ visitedNames' = IF frames[Len(frames)].marked
                       THEN unmark(visitedNames, frames[Len(frames)].name)
                       ELSE visitedNames
    /\ frames' = SubSeq(frames, 1, Len(frames) - 1)
    /\ UNCHANGED <<catalog, cur, expansions, fatal>>
    /\ UNCHANGED varsButBuilder

NextVisited ==
    Unwrap \/ Leaf \/ Revisit \/ Mark \/ Literal \/ NextField \/ ReturnFromStruct

SpecVisited == InitVisited /\ [][NextVisited]_vars

\* the outermost call of buildSchemaFromExpr has returned
Built == IsNil(cur) /\ frames = << >>

\* C24: schema construction leaves the visited set as it found it. A name is
\* marked only while an activation that marked it ranges over its fields; no
\* name is marked when the construction returns; and an occurrence of a
\* struct type gets the bare {type: "object"} only inside the expansion of
\* the same type, so an occurrence beside an earlier, finished expansion of
\* the type is expanded again.
C24_VisitedRestored ==
    /\ \A name \in DOMAIN visitedNames :
          visitedNames[name] =>
              \E i \in 1..Len(frames) : frames[i].name = name /\ frames[i].marked
    /\ Built => \A name \in DOMAIN visitedNames : ~visitedNames[name]
    /\ \A i \in 1..Len(expansions) :
          expansions[i].bare => expansions[i].name \in expansions[i].inside

\* the construction has returned after it expanded one type in two sibling
\* fields and met a type inside its own expansion
C24_SiblingsAndSelfReference ==
    /\ Built
    /\ \E i, j \in 1..Len(expansions) :
          /\ i < j
          /\ expansions[i].name = expansions[j].name
          /\ expansions[i].inside = expansions[j].inside
          /\ ~expansions[i].bare /\ ~expansions[j].bare
    /\ \E i \in 1..Len(expansions) : expansions[i].bare

-----------------------------------------------------------------------------
(* session auth: one SessionAuthMiddleware under concurrent requests *)

\* the goroutines net/http runs ServeHTTP on, and the requests each serves
NumHandlers == 2
MaxServed == 2
HandlerGoroutines == 1..NumHandlers
CleanupGoroutine == NumHandlers + 1

\* FormValue("password") of a request: none, the configured one, another
Passwords == {"", "secret", "guess"}

\* a goroutine between two statements of its function: the statement it is
\* at, the request's ip and password, and its locals banExpiry, attempts, now
Goroutine(at, ip, password, banExpiry, count, t, served) ==
    [pc |-> at, ip |-> ip, password |-> password, banExpiry |-> banExpiry,
     attempts |-> count, now |-> t, served |-> served]
Parked(served) == Goroutine("idle", "", "", 0, 0, 0, served)

At(g, at) == g \in DOMAIN requests /\ requests[g].pc = at
Goto(g, at) == [requests EXCEPT ![g].pc = at]
\* the handler returns (renderLogin, renderBanned or next.ServeHTTP wrote the reply)
Replied(g) == [requests EXCEPT ![g] = Parked(@.served)]

\* delete(m.ipBans, ip) at time t: the entry that goes, if there is one
Deleted(ip, t) ==
    IF Has(middleware.ipBans, ip)
    THEN {[ip |-> ip, banExpiry |-> middleware.ipBans[ip], at |-> Unix(t)]}
    ELSE {}

\* NewSessionAuthMiddleware: empty maps, and the cleanup goroutine started
InitBans ==
    /\ \E ipBanEnabled \in BOOLEAN, max \in {1, 2} :
          middleware = NewSessionAuthMiddleware(AuthConfig(TRUE, "session", ipBanEnabled, max))
    /\ requests = [g \in HandlerGoroutines \cup {CleanupGoroutine} |-> Parked(0)]
    /\ wall = 0
    /\ removed = {}
    /\ fatal = FALSE
    /\ IdleButBans

\* ServeHTTP up to the call of isIPBanned: auth is enabled, a password is configured
Arrive(g) ==
    /\ At(g, "idle")
    /\ requests[g].served < MaxServed
    /\ \E ip \in ClientIPs, password \in Passwords :
          requests' = [requests EXCEPT
                         ![g] = Goroutine("isIPBanned", ip, password, 0, 0, 0, @.served + 1)]
    /\ UNCHANGED <<middleware, wall, removed>>
    /\ UNCHANGED varsButBans

\* isIPBanned up to RUnlock: the read of m.ipBans[ip] under the read lock
ReadBan(g) ==
    /\ At(g, "isIPBanned")
    /\ LET ip == requests[g].ip
       IN  IF \/ ~middleware.config.IPBanEnabled
              \/ ip \in middleware.config.AdminWhitelistIPs
              \/ ~Has(middleware.ipBans, ip)
           THEN requests' = Goto(g, "isAuthenticated")
           ELSE requests' = [requests EXCEPT ![g].pc = "expired",
                                             ![g].banExpiry = middleware.ipBans[ip]]
    /\ UNCHANGED <<middleware, wall, removed>>
    /\ UNCHANGED varsButBans

\* isIPBanned: time.Now().Unix() > banExpiry, on the value read under the read lock
CompareBan(g) ==
    /\ At(g, "expired")
    /\ IF Unix(wall) > requests[g].banExpiry
       THEN requests' = Goto(g, "unban")
       ELSE requests' = Replied(g)
    /\ UNCHANGED <<middleware, wall, removed>>
    /\ UNCHANGED varsButBans

\* isIPBanned: the deletes under the write lock
Unban(g) ==
    /\ At(g, "unban")
    /\ LET ip == requests[g].ip
       IN  /\ middleware' = [middleware EXCEPT !.ipBans = Delete(@, ip),
                                               !.attempts = Delete(@, ip)]
           /\ removed' = removed \cup Deleted(ip, wall)
    /\ requests' = Goto(g, "isAuthenticated")
    /\ UNCHANGED wall
    /\ UNCHANGED varsButBans

\* ServeHTTP after isIPBanned: the request has no session cookie; a POST with
\* a password goes to handleLogin, up to its first Unlock
Login(g) ==
    /\ At(g, "isAuthenticated")
    /\ LET r == requests[g]
       IN  IF r.password = ""
           THEN /\ requests' = Replied(g)
                /\ UNCHANGED middleware
           ELSE IF r.password = middleware.config.Password
           THEN /\ middleware' = [middleware EXCEPT
                                    !.attempts = Delete(@, r.ip),
                                    !.sessions = Put(@, <<g, r.served>>, Unix(wall))]
                /\ requests' = Replied(g)
           ELSE LET count == (IF Has(middleware.attempts, r.ip)
                              THEN middleware.attempts[r.ip] ELSE 0) + 1
                IN  /\ middleware' = [middleware EXCEPT !.attempts = Put(@, r.ip, count)]
                    /\ requests' = [requests EXCEPT ![g].pc = "counted",
                                                    ![g].attempts = count]
    /\ UNCHANGED <<wall, removed>>
    /\ UNCHANGED varsButBans

\* handleLogin after the count: the test of attempts and of the whitelist, and
\* the ban's expiry from time.Now()
Counted(g) ==
    /\ At(g, "counted")
    /\ LET r == requests[g]
           config == middleware.config
       IN  IF r.attempts >= config.IPBanMaxAttempts /\ config.IPBanEnabled
           THEN IF r.ip \notin config.AdminWhitelistIPs
                THEN requests' = [requests EXCEPT
                                    ![g].pc = "ban",
                                    ![g].banExpiry = Unix(wall) + config.IPBanDuration * 60]
                ELSE requests' = Goto(g, "reset")
           ELSE requests' = Replied(g)
    /\ UNCHANGED <<middleware, wall, removed>>
    /\ UNCHANGED varsButBans

\* handleLogin: m.ipBans[ip] = banExpiry and the delete of the attempts, under the write lock
Ban(g) ==
    /\ At(g, "ban")
    /\ LET r == requests[g]
       IN  middleware' = [middleware EXCEPT !.ipBans = Put(@, r.ip, r.banExpiry),
                                            !.attempts = Delete(@, r.ip)]
    /\ requests' = Replied(g)
    /\ UNCHANGED <<wall, removed>>
    /\ UNCHANGED varsButBans

\* handleLogin, whitelisted ip: the attempts are reset under the write lock
ResetAttempts(g) ==
    /\ At(g, "reset")
    /\ middleware' = [middleware EXCEPT !.attempts = Delete(@, requests[g].ip)]
    /\ requests' = Replied(g)
    /\ UNCHANGED <<wall, removed>>
    /\ UNCHANGED varsButBans

\* cleanupRoutine: the ticker fires and now := time.Now().Unix() is taken
Wake ==
    /\ At(CleanupGoroutine, "idle")
    /\ requests' = [requests EXCEPT ![CleanupGoroutine].pc = "sweep",
                                    ![CleanupGoroutine].now = Unix(wall)]
    /\ UNCHANGED <<middleware, wall, removed>>
    /\ UNCHANGED varsButBans

\* cleanupRoutine: the two loops under the write lock
Sweep ==
    /\ At(CleanupGoroutine, "sweep")
    /\ LET t == requests[CleanupGoroutine].now
           staleSessions == {id \in DOMAIN middleware.sessions :
                               t > middleware.sessions[id] + middleware.config.SessionExpire * 60}
           staleBans == {ip \in DOMAIN middleware.ipBans : t > middleware.ipBans[ip]}
       IN  /\ middleware' =
                 [middleware EXCEPT
                    !.sessions = [id \in (DOMAIN @) \ staleSessions |-> @[id]],
                    !.ipBans = [ip \in (DOMAIN @) \ staleBans |-> @[ip]],
                    !.attempts = [ip \in (DOMAIN @) \ staleBans |-> @[ip]]]
           /\ removed' = removed \cup UNION {Deleted(ip, wall) : ip \in staleBans}
    /\ requests' = Goto(CleanupGoroutine, "idle")
    /\ UNCHANGED wall
    /\ UNCHANGED varsButBans

\* a minute passes
Minute ==
    /\ ~IsNil(middleware)
    /\ wall < MaxClock
    /\ wall' = wall + 1
    /\ UNCHANGED <<middleware, requests, removed>>
    /\ UNCHANGED varsButBans

NextBans ==
    \/ \E g \in HandlerGoroutines : Arrive(g)
    \/ \E g \in HandlerGoroutines : ReadBan(g)
    \/ \E g \in HandlerGoroutines : CompareBan(g)
    \/ \E g \in HandlerGoroutines : Unban(g)
    \/ \E g \in HandlerGoroutines : Login(g)
    \/ \E g \in HandlerGoroutines : Counted(g)
    \/ \E g \in HandlerGoroutines : Ban(g)
    \/ \E g \in HandlerGoroutines : ResetAttempts(g)
    \/ Wake
    \/ Sweep
    \/ Minute

SpecBans == InitBans /\ [][NextBans]_vars

\* C27: a ban leaves the ban table only after its own expiry time has passed:
\* whenever an entry of m.ipBans was deleted, the clock at the delete was
\* later than the expiry the deleted entry held.
C27_RemovedAfterExpiry == \A ban \in removed : ban.at > ban.banExpiry

-----------------------------------------------------------------------------
(* ui: the scenario store, createScenario under concurrent requests *)

\* the goroutines net/http runs createScenario on, the requests each serves,
\* and the last second of the clock
NumCreators == 2
MaxCreates == 2
MaxSeconds == 1
Creators == 1..NumCreators

\* the bodies of POST requests: not JSON, or a scenario with this name
InvalidJSON == "{"
ScenarioBodies == {InvalidJSON, "", "smoke", "load"}

\* Scenario, with the fields createScenario reads or writes
Scenario(id, name, executionMode, timeout) ==
    [ID |-> id, Name |-> name,
     Config |-> [ExecutionMode |-> executionMode, Timeout |-> timeout]]

\* fmt.Sprintf("scenario_%d_%d", seconds, counter)
ScenarioID(seconds, counter) == "scenario_" \o Itoa(seconds) \o "_" \o Itoa(counter)

\* a goroutine between two statements of createScenario: the statement it is
\* at, the scenario it decoded, the counter value it loaded
Creator(at, scenario, loaded, served) ==
    [pc |-> at, scenario |-> scenario, loaded |-> loaded, served |-> served]
Waiting(served) == Creator("idle", Nil, 0, served)

Creating(g, at) == g \in DOMAIN creators /\ creators[g].pc = at
\* the handler returns after http.Error or after it encoded the scenario
Encoded(g) == [creators EXCEPT ![g] = Waiting(@.served)]
\* fatal error: concurrent map writes, which ends the process
Thrown == [g \in DOMAIN creators |-> [creators[g] EXCEPT !.pc = "fatal"]]

InitScenarios ==
    /\ scenarios = EmptyMap
    /\ scenarioCounter = 0
    /\ creators = [g \in Creators |-> Waiting(0)]
    /\ created = {}
    /\ unixTime = 0
    /\ fatal = FALSE
    /\ IdleButScenario

\* createScenario: json.NewDecoder(r.Body).Decode(&scenario)
Decode(g) ==
    /\ Creating(g, "idle")
    /\ creators[g].served < MaxCreates
    /\ \E body \in ScenarioBodies :
          IF body = InvalidJSON
          THEN creators' = [creators EXCEPT ![g].served = @ + 1]
          ELSE creators' = [creators EXCEPT
                              ![g] = Creator("load", Scenario("", body, "", 0), 0, @.served + 1)]
    /\ UNCHANGED <<scenarios, scenarioCounter, created, unixTime>>
    /\ UNCHANGED varsButScenario

\* generateScenarioID: scenarioCounter++ reads the counter
LoadCounter(g) ==
    /\ Creating(g, "load")
    /\ creators' = [creators EXCEPT ![g].pc = "store", ![g].loaded = scenarioCounter]
    /\ UNCHANGED <<scenarios, scenarioCounter, created, unixTime>>
    /\ UNCHANGED varsButScenario

\* generateScenarioID: scenarioCounter++ writes the counter back
StoreCounter(g) ==
    /\ Creating(g, "store")
    /\ scenarioCounter' = creators[g].loaded + 1
    /\ creators' = [creators EXCEPT ![g].pc = "sprintf"]
    /\ UNCHANGED <<scenarios, created, unixTime>>
    /\ UNCHANGED varsButScenario

\* generateScenarioID: the Sprintf, which reads the clock and the counter;
\* then createScenario's test of the name and its defaults
FormatID(g) ==
    /\ Creating(g, "sprintf")
    /\ LET scenario == creators[g].scenario
       IN  IF scenario.Name = ""
           THEN creators' = Encoded(g)
           ELSE creators' =
                  [creators EXCEPT
                     ![g].pc = "mapassign",
                     ![g].scenario = Scenario(ScenarioID(unixTime, scenarioCounter),
                                              scenario.Name, "sequential", 30000)]
    /\ UNCHANGED <<scenarios, scenarioCounter, created, unixTime>>
    /\ UNCHANGED varsButScenario

\* createScenario: scenarios[scenario.ID] = &scenario begins. The runtime
\* may or may not notice another goroutine inside an assignment to the map.
MapAssign(g) ==
    /\ Creating(g, "mapassign")
    /\ \/ creators' = [creators EXCEPT ![g].pc = "assigning"]
       \/ /\ \E other \in Creators \ {g} : Creating(other, "assigning")
          /\ creators' = Thrown
    /\ UNCHANGED <<scenarios, scenarioCounter, created, unixTime>>
    /\ UNCHANGED varsButScenario

\* createScenario: the assignment is done, 201 and the scenario are written
Created(g) ==
    /\ Creating(g, "assigning")
    /\ LET scenario == creators[g].scenario
       IN  /\ scenarios' = Put(scenarios, scenario.ID, scenario)
           /\ created' = created \cup {[request |-> <<g, creators[g].served>>,
                                        scenario |-> scenario]}
    /\ creators' = Encoded(g)
    /\ UNCHANGED <<scenarioCounter, unixTime>>
    /\ UNCHANGED varsButScenario

\* a second passes
Second ==
    /\ creators # << >>
    /\ unixTime < MaxSeconds
    /\ unixTime' = unixTime + 1
    /\ UNCHANGED <<scenarios, scenarioCounter, creators, created>>
    /\ UNCHANGED varsButScenario

NextScenarios ==
    \/ \E g \in Creators : Decode(g)
    \/ \E g \in Creators : LoadCounter(g)
    \/ \E g \in Creators : StoreCounter(g)
    \/ \E g \in Creators : FormatID(g)
    \/ \E g \in Creators : MapAssign(g)
    \/ \E g \in Creators : Created(g)
    \/ Second

SpecScenarios == InitScenarios /\ [][NextScenarios]_vars

\* C30: every scenario a create request was answered with is stored under an
\* ID of its own: no two create requests were given the same ID, and each
\* created scenario is still in the store, under its ID, as it was created.
C30_StoredUnderOwnID ==
    /\ \A c, d \in created : c.request # d.request => c.scenario.ID # d.scenario.ID
    /\ \A c \in created :
          /\ Has(scenarios, c.scenario.ID)
          /\ scenarios[c.scenario.ID] = c.scenario

-----------------------------------------------------------------------------
(* gorilla/mux: the GorillaMuxWrapper and the docs endpoint on it *)

\* the calls an application makes on the wrapper and the docs requests it serves
MaxRegistrations == 3
MaxDocsRequests == 2

\* the paths and method lists routes are registered with
RoutePaths == {"/users/{id:[0-9]+}", "/static/app.js"}
MethodLists == {<<"POST">>, <<"GET", "POST">>}

\* GorillaRoute, and a route of the mux.Router: its path template and the
\* methods of its method matcher (none without one)
GorillaRoute(method, path) == [Method |-> method, Path |-> path]
MuxRoute(path, methods) == [Path |-> path, Methods |-> methods]

\* what a call on the wrapper returns: a *RouteBuilder or a *mux.Route,
\* pointing at the mux route, or the wrapper itself; own is the position of
\* the GorillaRoute the call appended
Handed(kind, route, own) == [kind |-> kind, route |-> route, own |-> own]

Op(name, h, methods, path) == [op |-> name, h |-> h, methods |-> methods, path |-> path]

\* core.Config of the docs
GorillaDocsConfig == [DocsPath |-> DocsPath, AutoDetect |-> TRUE]

\* m.routes[len(m.routes)-1].Method = methods[0]
setLastMethod(routes, methods) ==
    IF Len(routes) > 0 /\ Len(methods) > 0
    THEN [routes EXCEPT ![Len(routes)].Method = methods[1]]
    ELSE routes

\* GorillaMuxWrapper.Handle: the route is tracked as GET and given to the Router
handleOn(w, path) ==
    [w EXCEPT !.routes = Append(@, GorillaRoute("GET", path)),
              !.Router = Append(@, MuxRoute(path, << >>))]

\* the callback GetRoutes gives to Router.Walk, over the mux routes in order
RECURSIVE walkRoutes(_, _)
walkRoutes(allRoutes, muxRoutes) ==
    IF muxRoutes = << >> THEN allRoutes
    ELSE LET route == Head(muxRoutes)
             method == IF Len(route.Methods) > 0 THEN route.Methods[1] ELSE "GET"
             exists == \E i \in 1..Len(allRoutes) :
                          allRoutes[i].Method = method /\ allRoutes[i].Path = route.Path
         IN  IF route.Path # "" /\ ~exists
             THEN walkRoutes(Append(allRoutes, GorillaRoute(method, route.Path)), Tail(muxRoutes))
             ELSE walkRoutes(allRoutes, Tail(muxRoutes))

GetRoutes(w) == walkRoutes(w.routes, w.Router)

\* the docs handler's test of a detected route
skipsRoute(path, config) ==
    \/ HasPrefix(path, config.DocsPath)
    \/ Contains(path, "/static")
    \/ Contains(path, "/assets")

\* the loop of the docs handler: AddRouteInfo for every route it does not skip
RECURSIVE addDetected(_, _, _)
addDetected(routes, detected, config) ==
    IF detected = << >> THEN routes
    ELSE IF skipsRoute(Head(detected).Path, config)
    THEN addDetected(routes, Tail(detected), config)
    ELSE addDetected(Append(routes, Head(detected)), Tail(detected), config)

\* APIDocs.extractSection: the last part that is no parameter, not "api" and
\* no version; else the first part; else "default"
RECURSIVE sectionFrom(_, _)
sectionFrom(parts, i) ==
    IF i < 1
    THEN IF Len(parts) > 0 /\ parts[1] # "" THEN parts[1] ELSE "default"
    ELSE IF /\ parts[i] # "" /\ ~HasPrefix(parts[i], ":") /\ ~Contains(parts[i], "{")
            /\ parts[i] # "api" /\ ~HasPrefix(parts[i], "v")
    THEN parts[i]
    ELSE sectionFrom(parts, i - 1)

extractSection(path) ==
    LET parts == Split(Trim(path, "/"), "/") IN sectionFrom(parts, Len(parts))

\* APIDocs.processRoute: the endpoint of a route, with its display path
processRoute(route) == [Method |-> route.Method, Path |-> convertPathToOpenAPI(route.Path)]

\* APIDocs.Generate: the endpoints of all routes, by section. The slice of
\* sections is in the order of a map iteration; it is kept as the map here.
RECURSIVE generateFrom(_, _)
generateFrom(sections, routes) ==
    IF routes = << >> THEN sections
    ELSE LET endpoint == processRoute(Head(routes))
             sectionName == extractSection(endpoint.Path)
             section == IF Has(sections, sectionName) THEN sections[sectionName] ELSE << >>
         IN  generateFrom(Put(sections, sectionName, Append(section, endpoint)), Tail(routes))

Generate(a) == [a EXCEPT !.Endpoints = generateFrom(EmptyMap, a.routes)]

\* core.New
NewAPIDocs(config) == [config |-> config, routes |-> << >>, Endpoints |-> EmptyMap]

\* the handler SetupGorillaMuxDocs registers on DocsPath + "/"
docsIndexHandler(a, w) ==
    IF DOMAIN a.Endpoints = {} /\ a.config.AutoDetect
    THEN Generate([a EXCEPT !.routes = addDetected(@, GetRoutes(w), a.config)])
    ELSE a

\* APIDocs.ServeHTTP: serveDocs generates when there is no endpoint, and the
\* OpenAPI documents generate once more
serveDocsGenerate(a, path) ==
    LET filled == IF DOMAIN a.Endpoints = {} THEN Generate(a) ELSE a
    IN  IF HasPrefix(TrimPrefix(path, a.config.DocsPath), "/openapi.json")
        THEN Generate(filled)
        ELSE filled

InitMux ==
    /\ wrapper = [routes |-> << >>, Router |-> << >>]
    /\ handed = << >>
    /\ globalGorillaDocs = Nil
    /\ docsServed = 0
    /\ lastOp = Op("NewGorillaMuxWrapper", 0, << >>, "")
    /\ fatal = FALSE
    /\ IdleButMux

Registering == docsServed = 0 /\ Len(handed) < MaxRegistrations

\* router.Handle(path, handler)
Handle ==
    /\ Registering
    /\ \E path \in RoutePaths :
          /\ wrapper' = handleOn(wrapper, path)
          /\ handed' = Append(handed, Handed("route", Len(wrapper.Router) + 1,
                                             Len(wrapper.routes) + 1))
          /\ lastOp' = Op("Handle", Len(handed) + 1, << >>, path)
    /\ UNCHANGED <<globalGorillaDocs, docsServed>>
    /\ UNCHANGED varsButMux

\* router.HandleFunc(path, handler)
HandleFunc ==
    /\ Registering
    /\ \E path \in RoutePaths :
          /\ wrapper' = handleOn(wrapper, path)
          /\ handed' = Append(handed, Handed("builder", Len(wrapper.Router) + 1,
                                             Len(wrapper.routes) + 1))
          /\ lastOp' = Op("HandleFunc", Len(handed) + 1, << >>, path)
    /\ UNCHANGED <<globalGorillaDocs, docsServed>>
    /\ UNCHANGED varsButMux

\* rb.Methods(methods...) on a RouteBuilder a HandleFunc call returned
RouteBuilderMethods ==
    /\ docsServed = 0
    /\ \E h \in 1..Len(handed), methods \in MethodLists :
          /\ handed[h].kind = "builder"
          /\ wrapper.Router[handed[h].route].Methods = << >>
          /\ wrapper' = [wrapper EXCEPT
                           !.routes = setLastMethod(@, methods),
                           !.Router[handed[h].route].Methods = methods]
          /\ lastOp' = Op("RouteBuilder.Methods", h, methods, "")
    /\ UNCHANGED <<handed, globalGorillaDocs, docsServed>>
    /\ UNCHANGED varsButMux

\* route.Methods(methods...) on the *mux.Route a Handle call returned
RouteMethods ==
    /\ docsServed = 0
    /\ \E h \in 1..Len(handed), methods \in MethodLists :
          /\ handed[h].kind = "route"
          /\ wrapper.Router[handed[h].route].Methods = << >>
          /\ wrapper' = [wrapper EXCEPT !.Router[handed[h].route].Methods = methods]
          /\ lastOp' = Op("Route.Methods", h, methods, "")
    /\ UNCHANGED <<handed, globalGorillaDocs, docsServed>>
    /\ UNCHANGED varsButMux

\* router.Methods(methods...) on the wrapper, which returns the wrapper
WrapperMethods ==
    /\ Registering
    /\ \E methods \in MethodLists :
          /\ wrapper' = [wrapper EXCEPT !.routes = setLastMethod(@, methods)]
          /\ lastOp' = Op("GorillaMuxWrapper.Methods", Len(handed) + 1, methods, "")
    /\ handed' = Append(handed, Handed("wrapper", 0, 0))
    /\ UNCHANGED <<globalGorillaDocs, docsServed>>
    /\ UNCHANGED varsButMux

\* SetupGorillaMuxDocs(router, config): the APIDocs, the handler on
\* DocsPath + "/" and the handler on the prefix DocsPath + "/"
SetupGorillaMuxDocs ==
    /\ ~IsNil(wrapper)
    /\ IsNil(globalGorillaDocs)
    /\ globalGorillaDocs' = NewAPIDocs(GorillaDocsConfig)
    /\ LET path == GorillaDocsConfig.DocsPath \o "/"
           tracked == handleOn(wrapper, path)
       IN  wrapper' = [tracked EXCEPT !.Router = Append(@, MuxRoute(path, << >>))]
    /\ lastOp' = Op("SetupGorillaMuxDocs", 0, << >>, "")
    /\ UNCHANGED <<handed, docsServed>>
    /\ UNCHANGED varsButMux

\* a request for DocsPath + "/": the handler that detects the routes
DocsIndex ==
    /\ ~IsNil(globalGorillaDocs)
    /\ docsServed < MaxDocsRequests
    /\ LET path == GorillaDocsConfig.DocsPath \o "/"
       IN  /\ globalGorillaDocs' = serveDocsGenerate(docsIndexHandler(globalGorillaDocs, wrapper), path)
           /\ lastOp' = Op("GET", 0, << >>, path)
    /\ docsServed' = docsServed + 1
    /\ UNCHANGED <<wrapper, handed>>
    /\ UNCHANGED varsButMux

\* a request for a document below DocsPath + "/": the handler on the prefix
DocsFile ==
    /\ ~IsNil(globalGorillaDocs)
    /\ docsServed < MaxDocsRequests
    /\ \E path \in {"/docs/api-data.json", "/docs/openapi.json"} :
          /\ globalGorillaDocs' = serveDocsGenerate(globalGorillaDocs, path)
          /\ lastOp' = Op("GET", 0, << >>, path)
    /\ docsServed' = docsServed + 1
    /\ UNCHANGED <<wrapper, handed>>
    /\ UNCHANGED varsButMux

NextMux ==
    \/ Handle
    \/ HandleFunc
    \/ RouteBuilderMethods
    \/ RouteMethods
    \/ WrapperMethods
    \/ SetupGorillaMuxDocs
    \/ DocsIndex
    \/ DocsFile

SpecMux == InitMux /\ [][NextMux]_vars

\* C29: Methods on the RouteBuilder a HandleFunc call returned changes the
\* recorded method of the route that call registered, and of no other
\* tracked route.
C29_MethodsOnOwnRoute ==
    [][lastOp'.op = "RouteBuilder.Methods" =>
          /\ Len(wrapper'.routes) = Len(wrapper.routes)
          /\ \A i \in 1..Len(wrapper.routes) :
                /\ wrapper'.routes[i].Path = wrapper.routes[i].Path
                /\ wrapper'.routes[i].Method =
                      IF i = handed[lastOp'.h].own THEN lastOp'.methods[1]
                      ELSE wrapper.routes[i].Method]_vars

\* path is dir or lies below it
UnderPath(path, under) == path = under \/ HasPrefix(path, under \o "/")

\* the application's routes: the routes of the Router outside the docs,
\* static and assets paths
ApplicationRoutes ==
    {i \in 1..Len(wrapper.Router) :
        ~\E under \in {DocsPath, "/static", "/assets"} : UnderPath(wrapper.Router[i].Path, under)}

\* the endpoints of the generated documentation, each by its place
DocumentedAt(path) ==
    {<<section, i>> \in UNION {{section} \X (1..Len(globalGorillaDocs.Endpoints[section])) :
                                  section \in DOMAIN globalGorillaDocs.Endpoints} :
        globalGorillaDocs.Endpoints[section][i].Path = path}

\* C28: once a docs request was served, every application route is in the
\* generated documentation exactly once and with a method it was registered
\* with: the documentation has as many endpoints on a route's path as routes
\* were registered on that path, one of them with the route's method (any
\* method for a route registered without one).
C28_EachRouteOnce ==
    docsServed > 0 =>
        \A i \in ApplicationRoutes :
            LET route == wrapper.Router[i]
                path == convertPathToOpenAPI(route.Path)
                documented == DocumentedAt(path)
                registered == {j \in ApplicationRoutes :
                                  convertPathToOpenAPI(wrapper.Router[j].Path) = path}
            IN  /\ Cardinality(documented) = Cardinality(registered)
                /\ \E at \in documented :
                      \/ route.Methods = << >>
                      \/ \E k \in 1..Len(route.Methods) :
                            globalGorillaDocs.Endpoints[at[1]][at[2]].Method = route.Methods[k]

=============================================================================
